---- MODULE Spec2Model ----
(***************************************************************************)
(* A model of the iobuf filter pipeline of common/iobuf.c: the file       *)
(* filter over a small POSIX file layer, the close cache, the block       *)
(* (partial body length) filter and the chain engine (push, pop,          *)
(* underflow, flush, read, peek, write, close).                           *)
(*                                                                         *)
(* Every C function is an operator from a "world" record w (the pipeline   *)
(* chain, the OS file layer, the close cache, the allocation counters,     *)
(* the callback log) to a result record holding the new world and the     *)
(* function's return values.  A node pointer is the node's position in    *)
(* w.chain; a->chain is the next position.  The Unix branches of the      *)
(* #ifdefs are the ones modelled.                                          *)
(***************************************************************************)
EXTENDS Integers, Sequences, FiniteSets, TLC

VARIABLES
  chain,        \* the pipeline: sequence of iobuf nodes, head first
  os,           \* file layer: descriptor table, directory, inodes
  close_cache,  \* the close cache list, newest slot first
  number,       \* iobuf_alloc's static counter
  log,          \* filter callbacks made by the last operation
  abort,        \* "" or the message of the log_bug/log_assert that ended the process
  iobuf_buffer_size, \* the buffer size knob
  h             \* harness: what the caller holds and has observed

vars == <<chain, os, close_cache, number, log, abort, iobuf_buffer_size, h>>

(***************************************************************************)
(* Program constants.                                                      *)
(***************************************************************************)
DEFAULT_IOBUF_BUFFER_SIZE == 65536
MAX_NESTING_FILTER == 64
IOBUF_ZEROCOPY_THRESHOLD_SIZE == 1024
OP_MIN_PARTIAL_CHUNK == 512
OP_MIN_PARTIAL_CHUNK_2POW == 9
PEEKED_SIZE == 32
GNUPG_INVALID_FD == -1
FD_FOR_STDIN == 0
FD_FOR_STDOUT == 1
GPG_ERR_BAD_DATA == 89
GPG_ERR_INTERNAL == 63
GPG_ERR_EIO == 32816

IOBUF_INPUT == "IOBUF_INPUT"
IOBUF_INPUT_TEMP == "IOBUF_INPUT_TEMP"
IOBUF_OUTPUT == "IOBUF_OUTPUT"
IOBUF_OUTPUT_TEMP == "IOBUF_OUTPUT_TEMP"

IOBUFCTRL_INIT == "INIT"
IOBUFCTRL_FREE == "FREE"
IOBUFCTRL_UNDERFLOW == "UNDERFLOW"
IOBUFCTRL_FLUSH == "FLUSH"
IOBUFCTRL_CANCEL == "CANCEL"
IOBUFCTRL_PEEK == "PEEK"

\* The filter functions a node can carry (a->filter); NoFilter is NULL.
NoFilter == "NULL"
FileFilter == "file_filter"
BlockFilter == "block_filter"
IdentityFilter == "identity_filter"
ShortFilter == "short_filter"
CompressFilter == "compress_filter"

(***************************************************************************)
(* Small helpers.                                                          *)
(***************************************************************************)
Min(x, y) == IF x < y THEN x ELSE y

Take(s, n) == SubSeq(s, 1, Min(n, Len(s)))

Drop(s, n) == SubSeq(s, n + 1, Len(s))

\* F applied to the value v: a call's result, named once for the steps
\* that follow the call.
With(v, F(_)) == F(v)

\* The world the C functions run in.
World == [chain |-> chain, os |-> os, cc |-> close_cache, number |-> number,
          log |-> log, abort |-> abort, bufsize |-> iobuf_buffer_size]

\* log_bug / BUG / a failed log_assert: the process ends.
Bug(w, msg) == [w EXCEPT !.abort = IF w.abort = "" THEN msg ELSE w.abort]

Logged(w, fid, control, n) ==
  [w EXCEPT !.log = Append(w.log, [fid |-> fid, control |-> control, n |-> n])]

(***************************************************************************)
(* The file layer: open, read, write, lseek, close, remove of POSIX.      *)
(* os.fds maps a descriptor to its open file description, os.dir a path   *)
(* to its inode (0: no such file), os.inodes holds the file contents.     *)
(* os.rchunk is the most one read() call returns: read may return less    *)
(* than asked for.  os.rfail is the file offset at which read() fails     *)
(* with EIO (-1: never).                                                   *)
(***************************************************************************)
MaxFd == 6

Fds == 0 .. MaxFd

ClosedFd == [open |-> FALSE, ino |-> 0, pos |-> 0, path |-> ""]

FreeFds(o) == {fd \in Fds : ~o.fds[fd].open}

LowestFree(o) == CHOOSE fd \in FreeFds(o) : \A g \in FreeFds(o) : fd <= g

\* open (fname, oflag): mode is "r" (O_RDONLY), "w" (O_WRONLY|O_CREAT|O_TRUNC)
\* or "+" (O_RDWR).
sys_open(o, fname, mode) ==
  IF FreeFds(o) = {} \/ fname \notin DOMAIN o.dir
    THEN [os |-> o, fd |-> -1]
  ELSE IF mode = "w"
    THEN LET fd == LowestFree(o)
             fresh == o.dir[fname] = 0
             ino == IF fresh THEN Len(o.inodes) + 1 ELSE o.dir[fname]
             inodes == IF fresh THEN Append(o.inodes, <<>>)
                       ELSE [o.inodes EXCEPT ![ino] = <<>>]
         IN [os |-> [o EXCEPT !.inodes = inodes, !.dir[fname] = ino,
                               !.fds[fd] = [open |-> TRUE, ino |-> ino,
                                            pos |-> 0, path |-> fname],
                               !.nopen = o.nopen + 1],
             fd |-> fd]
  ELSE IF o.dir[fname] = 0
    THEN [os |-> o, fd |-> -1]
  ELSE LET fd == LowestFree(o)
       IN [os |-> [o EXCEPT !.fds[fd] = [open |-> TRUE, ino |-> o.dir[fname],
                                         pos |-> 0, path |-> fname],
                             !.nopen = o.nopen + 1],
           fd |-> fd]

\* The bytes a read of size bytes gets: what is left of the file, up to
\* the failing offset, at most os.rchunk.
ReadLen(o, fd, size) ==
  LET pos == o.fds[fd].pos
      len == Len(o.inodes[o.fds[fd].ino])
      avail == IF len > pos THEN len - pos ELSE 0
  IN Min(Min(size, o.rchunk),
         IF o.rfail >= pos /\ o.rfail < pos + avail THEN o.rfail - pos ELSE avail)

\* read (fd, buf, size): at most os.rchunk bytes, 0 at end of file, -1 on error.
sys_read(o, fd, size) ==
  IF fd \notin Fds \/ ~o.fds[fd].open \/ o.fds[fd].ino = 0
    THEN [os |-> o, n |-> -1, data |-> <<>>]
  ELSE IF o.rfail = o.fds[fd].pos /\ size > 0
    THEN [os |-> o, n |-> -1, data |-> <<>>]
  ELSE With(ReadLen(o, fd, size), LAMBDA n :
         [os |-> [o EXCEPT !.fds[fd].pos = o.fds[fd].pos + n], n |-> n,
          data |-> SubSeq(o.inodes[o.fds[fd].ino], o.fds[fd].pos + 1,
                          o.fds[fd].pos + n)])

\* write (fd, p, nbytes): writes all of it at the descriptor's offset.
sys_write(o, fd, data) ==
  IF fd \notin Fds \/ ~o.fds[fd].open \/ o.fds[fd].ino = 0 \/ o.wfail
    THEN [os |-> o, n |-> -1]
  ELSE LET f == o.fds[fd]
           file == o.inodes[f.ino]
           new == Take(file, f.pos) \o data \o Drop(file, f.pos + Len(data))
       IN [os |-> [o EXCEPT !.inodes[f.ino] = new,
                             !.fds[fd].pos = f.pos + Len(data)],
           n |-> Len(data)]

\* lseek (fd, newpos, SEEK_SET)
sys_lseek(o, fd, newpos) ==
  IF fd \notin Fds \/ ~o.fds[fd].open \/ o.fds[fd].ino = 0 \/ o.seekfail
    THEN [os |-> o, rc |-> -1]
  ELSE [os |-> [o EXCEPT !.fds[fd].pos = newpos], rc |-> newpos]

\* close (fd): os.cfail is the descriptor whose close() reports an error
\* (-1: none); the descriptor is released all the same.
sys_close(o, fd) ==
  IF fd \notin Fds \/ ~o.fds[fd].open
    THEN [os |-> o, rc |-> -1]
  ELSE [os |-> [o EXCEPT !.fds[fd] = ClosedFd],
        rc |-> IF fd = o.cfail THEN -1 ELSE 0]

\* remove (path): the directory entry goes, open descriptors keep the inode.
sys_remove(o, fname) ==
  IF fname \in DOMAIN o.dir /\ o.dir[fname] # 0
    THEN [o EXCEPT !.dir[fname] = 0]
  ELSE o

(***************************************************************************)
(* The close cache.  A slot is [fname, fp]; fp = GNUPG_INVALID_FD marks a  *)
(* free slot.                                                              *)
(***************************************************************************)
fd_cache_strcmp(a, b) == IF a = b THEN 0 ELSE 1

RECURSIVE fd_cache_invalidate_from(_, _, _, _)
fd_cache_invalidate_from(w, fname, k, rc) ==
  IF k > Len(w.cc) THEN [w |-> w, rc |-> rc]
  ELSE LET slot == w.cc[k]
       IN IF slot.fp # GNUPG_INVALID_FD /\ fd_cache_strcmp(slot.fname, fname) = 0
            THEN LET c == sys_close(w.os, slot.fp)
                 IN fd_cache_invalidate_from(
                      [w EXCEPT !.os = c.os, !.cc[k].fp = GNUPG_INVALID_FD],
                      fname, k + 1, c.rc)
          ELSE fd_cache_invalidate_from(w, fname, k + 1, rc)

fd_cache_invalidate(w, fname) == fd_cache_invalidate_from(w, fname, 1, 0)

\* open (fname, oflag) returned op.
direct_open_done(op, w) == [w |-> [w EXCEPT !.os = op.os], fp |-> op.fd]

\* fd_cache_invalidate returned inv: the "+" and "w" modes go on to open.
direct_open_inv(inv, fname, mode) ==
  IF inv.rc # 0 THEN [w |-> inv.w, fp |-> GNUPG_INVALID_FD]
  ELSE direct_open_done(sys_open(inv.w.os, fname, mode), inv.w)

direct_open(w, fname, mode) ==
  IF mode = "+" \/ mode = "w"
    THEN direct_open_inv(fd_cache_invalidate(w, fname), fname, mode)
  ELSE direct_open_done(sys_open(w.os, fname, mode), w)

\* The first free slot for fname, or 0.
FreeSlot(cc, fname) ==
  LET S == {k \in 1 .. Len(cc) :
              cc[k].fp = GNUPG_INVALID_FD /\ fd_cache_strcmp(cc[k].fname, fname) = 0}
  IN IF S = {} THEN 0 ELSE CHOOSE k \in S : \A j \in S : k <= j

\* The first live slot for fname, or 0.
LiveSlot(cc, fname) ==
  LET S == {k \in 1 .. Len(cc) :
              cc[k].fp # GNUPG_INVALID_FD /\ fd_cache_strcmp(cc[k].fname, fname) = 0}
  IN IF S = {} THEN 0 ELSE CHOOSE k \in S : \A j \in S : k <= j

\* fname = "" stands for both NULL and the empty string.
fd_cache_close(w, fname, fp) ==
  IF fname = ""
    THEN [w EXCEPT !.os = sys_close(w.os, fp).os]
  ELSE With(FreeSlot(w.cc, fname), LAMBDA k :
         IF k # 0 THEN [w EXCEPT !.cc[k].fp = fp]
         ELSE [w EXCEPT !.cc = <<[fname |-> fname, fp |-> fp]>> \o w.cc])

\* As fd_cache_open, but the slot the handle is taken from stays live.
fd_cache_open_kept(w, fname, mode) ==
  With(LiveSlot(w.cc, fname), LAMBDA k :
    IF k # 0
      THEN With(sys_lseek(w.os, w.cc[k].fp, 0), LAMBDA sk :
             IF sk.rc = -1
               THEN [w |-> [w EXCEPT !.cc[k].fp = GNUPG_INVALID_FD],
                     fp |-> GNUPG_INVALID_FD]
             ELSE [w |-> [w EXCEPT !.os = sk.os], fp |-> w.cc[k].fp])
    ELSE direct_open(w, fname, mode))

\* As fd_cache_open, but the handle is handed out where the pipeline that
\* closed it had left it.
fd_cache_open_norewind(w, fname, mode) ==
  With(LiveSlot(w.cc, fname), LAMBDA k :
    IF k # 0
      THEN [w |-> [w EXCEPT !.cc[k].fp = GNUPG_INVALID_FD], fp |-> w.cc[k].fp]
    ELSE direct_open(w, fname, mode))

fd_cache_open(w, fname, mode) ==
  With(LiveSlot(w.cc, fname), LAMBDA k :
    IF k # 0
      THEN With(sys_lseek(w.os, w.cc[k].fp, 0), LAMBDA sk :
             IF sk.rc = -1
               THEN [w |-> [w EXCEPT !.cc[k].fp = GNUPG_INVALID_FD],
                     fp |-> GNUPG_INVALID_FD]
             ELSE [w |-> [w EXCEPT !.cc[k].fp = GNUPG_INVALID_FD, !.os = sk.os],
                   fp |-> w.cc[k].fp])
    ELSE direct_open(w, fname, mode))

\* fsync (fd)
sys_fsync(o, fd) == IF fd \notin Fds \/ ~o.fds[fd].open THEN -1 ELSE 0

RECURSIVE fd_cache_synchronize_from(_, _, _, _)
fd_cache_synchronize_from(w, fname, k, err) ==
  IF k > Len(w.cc) THEN [w |-> w, rc |-> err]
  ELSE fd_cache_synchronize_from(
         w, fname, k + 1,
         IF w.cc[k].fp # GNUPG_INVALID_FD /\ fd_cache_strcmp(w.cc[k].fname, fname) = 0
           THEN sys_fsync(w.os, w.cc[k].fp)
         ELSE err)

fd_cache_synchronize(w, fname) == fd_cache_synchronize_from(w, fname, 1, 0)

(***************************************************************************)
(* iobuf nodes.  addr is the node's address (what a pointer to it holds), *)
(* the other fields are struct iobuf_struct's.  d.buf holds the d.len      *)
(* valid bytes of the internal buffer.  e_d.set says e_d.buf is not NULL;  *)
(* e_d.data holds the bytes of the external buffer that matter: the bytes  *)
(* to write (output) or the bytes a filter stored there (input).           *)
(***************************************************************************)
NullOv == [id |-> 0]

NullEd == [set |-> FALSE, data |-> <<>>, len |-> 0, used |-> 0, preferred |-> FALSE]

\* malloc: the lowest address no live node has.
FreshAddr(w) ==
  LET used == {w.chain[k].addr : k \in 1 .. Len(w.chain)}
  IN CHOOSE x \in 1 .. (Len(w.chain) + 1) :
       x \notin used /\ \A y \in 1 .. (Len(w.chain) + 1) : y \notin used => x <= y

\* The lowest context id no filter of the chain has.
FreshId(w) ==
  LET used == {w.chain[k].filter_ov.id : k \in 1 .. Len(w.chain)}
  IN CHOOSE x \in 1 .. (Len(w.chain) + 1) :
       x \notin used /\ \A y \in 1 .. (Len(w.chain) + 1) : y \notin used => x <= y

SetNode(w, i, n) == [w EXCEPT !.chain[i] = n]

SetOv(w, i, ov) == [w EXCEPT !.chain[i].filter_ov = ov]

\* A memcpy that would move the node: the head's address becomes b's.
Memcpy_moved(a, b) == b

\* memcpy (a, b, sizeof *a): everything but the address.
Memcpy(a, b) == [b EXCEPT !.addr = a.addr]

\* The node at position i takes over the node after it, which is freed:
\* xfree (a->d.buf); memcpy (a, b, sizeof *a); xfree (b).
Splice(w, i) ==
  [w EXCEPT !.chain = [k \in 1 .. (Len(w.chain) - 1) |->
                         IF k < i THEN w.chain[k]
                         ELSE IF k = i THEN Memcpy(w.chain[i], w.chain[i + 1])
                         ELSE w.chain[k + 1]]]

\* iobuf_alloc: the new pipeline replaces w.chain.
iobuf_alloc(w, use, bufsize) ==
  IF bufsize = 0 THEN Bug(w, "iobuf_alloc() passed a bufsize of 0!")
  ELSE [w EXCEPT
          !.number = w.number + 1,
          !.chain = <<[addr |-> 1, use |-> use,
                       nlimit |-> 0, nbytes |-> 0, ntotal |-> 0, nofast |-> FALSE,
                       d |-> [buf |-> <<>>, start |-> 0, len |-> 0, size |-> bufsize],
                       e_d |-> NullEd,
                       filter_eof |-> FALSE, error |-> 0,
                       filter |-> NoFilter, filter_ov |-> NullOv,
                       filter_ov_owner |-> FALSE, real_fname |-> "",
                       no |-> w.number + 1, subno |-> 0]>>]

(***************************************************************************)
(* file_filter.  The context a node carries in filter_ov is                *)
(* file_filter_ctx_t plus the id that names it in the log.                 *)
(***************************************************************************)
\* The read_more loop of IOBUFCTRL_UNDERFLOW: read until SIZE bytes are in,
\* or read() returns 0 or -1.
RECURSIVE read_more(_, _, _, _)
read_more(o, f, size, got) ==
  With(sys_read(o, f, size - Len(got)), LAMBDA r :
    IF r.n > 0
      THEN IF Len(got) + r.n < size
             THEN read_more(r.os, f, size, got \o r.data)
           ELSE [os |-> r.os, n |-> 1, data |-> got \o r.data]
    ELSE [os |-> r.os, n |-> r.n, data |-> got])

\* The peek_more loop of IOBUFCTRL_PEEK.
RECURSIVE peek_more(_, _, _)
peek_more(o, f, peeked) ==
  With(sys_read(o, f, PEEKED_SIZE - Len(peeked)), LAMBDA r :
    IF r.n > 0
      THEN IF Len(peeked) + r.n < PEEKED_SIZE
             THEN peek_more(r.os, f, peeked \o r.data)
           ELSE [os |-> r.os, n |-> 1, peeked |-> peeked \o r.data]
    ELSE [os |-> r.os, n |-> r.n, peeked |-> peeked])

\* As file_filter_underflow, but a read error is returned at once and the
\* bytes read before it in the same call are dropped.
file_filter_underflow_nodelay(w, i, size) ==
  LET a == w.chain[i].filter_ov
  IN IF size = 0 THEN [w |-> Bug(w, "file_filter: log_assert (size)"),
                       rc |-> 0, len |-> 0, data |-> <<>>]
     ELSE IF a.eof_seen # 0
       THEN [w |-> w, rc |-> -1, len |-> 0, data |-> <<>>]
     ELSE IF a.delayed_rc # 0
       THEN [w |-> SetOv(w, i, [a EXCEPT !.delayed_rc = 0,
                                  !.eof_seen = IF a.delayed_rc = -1 THEN -1
                                               ELSE a.eof_seen]),
             rc |-> a.delayed_rc, len |-> 0, data |-> <<>>]
     ELSE With(read_more(w.os, a.fp, size, <<>>), LAMBDA r :
            With([w EXCEPT !.os = r.os], LAMBDA w1 :
              IF r.n > 0
                THEN [w |-> w1, rc |-> 0, len |-> Len(r.data), data |-> r.data]
              ELSE IF r.n = 0
                THEN IF Len(r.data) > 0
                       THEN [w |-> SetOv(w1, i, [a EXCEPT !.delayed_rc = -1]),
                             rc |-> 0, len |-> Len(r.data), data |-> r.data]
                     ELSE [w |-> SetOv(w1, i, [a EXCEPT !.eof_seen = 1]),
                           rc |-> -1, len |-> 0, data |-> <<>>]
              ELSE [w |-> w1, rc |-> GPG_ERR_EIO, len |-> 0, data |-> <<>>]))

file_filter_underflow(w, i, size) ==
  LET a == w.chain[i].filter_ov
  IN IF size = 0 THEN [w |-> Bug(w, "file_filter: log_assert (size)"),
                       rc |-> 0, len |-> 0, data |-> <<>>]
     ELSE IF a.npeeked > a.upeeked
       THEN LET nbytes == Min(a.npeeked - a.upeeked, size)
            IN [w |-> SetOv(w, i, [a EXCEPT !.upeeked = a.upeeked + nbytes]),
                rc |-> 0, len |-> nbytes,
                data |-> SubSeq(a.peeked, a.upeeked + 1, a.upeeked + nbytes)]
     ELSE IF a.eof_seen # 0
       THEN [w |-> w, rc |-> -1, len |-> 0, data |-> <<>>]
     ELSE IF a.delayed_rc # 0
       THEN [w |-> SetOv(w, i, [a EXCEPT !.delayed_rc = 0,
                                  !.eof_seen = IF a.delayed_rc = -1 THEN -1
                                               ELSE a.eof_seen]),
             rc |-> a.delayed_rc, len |-> 0, data |-> <<>>]
     ELSE With(read_more(w.os, a.fp, size, <<>>), LAMBDA r :
            With([w EXCEPT !.os = r.os], LAMBDA w1 :
              IF r.n > 0
                THEN [w |-> w1, rc |-> 0, len |-> Len(r.data), data |-> r.data]
              ELSE IF r.n = 0
                THEN IF Len(r.data) > 0
                       THEN [w |-> SetOv(w1, i, [a EXCEPT !.delayed_rc = -1]),
                             rc |-> 0, len |-> Len(r.data), data |-> r.data]
                     ELSE [w |-> SetOv(w1, i, [a EXCEPT !.eof_seen = 1]),
                           rc |-> -1, len |-> 0, data |-> <<>>]
              ELSE IF Len(r.data) > 0
                THEN [w |-> SetOv(w1, i, [a EXCEPT !.delayed_rc = GPG_ERR_EIO]),
                      rc |-> 0, len |-> Len(r.data), data |-> r.data]
              ELSE [w |-> w1, rc |-> GPG_ERR_EIO, len |-> 0, data |-> <<>>]))

file_filter_flush(w, i, buf) ==
  LET a == w.chain[i].filter_ov
  IN IF Len(buf) = 0 THEN [w |-> w, rc |-> 0, len |-> 0, data |-> <<>>]
     ELSE With(sys_write(w.os, a.fp, buf), LAMBDA r :
            IF r.n = -1
              THEN [w |-> w, rc |-> GPG_ERR_EIO, len |-> 0, data |-> <<>>]
            ELSE [w |-> [w EXCEPT !.os = r.os], rc |-> 0, len |-> r.n,
                  data |-> <<>>])

file_filter_init(w, i) ==
  LET a == w.chain[i].filter_ov
  IN [w |-> SetOv(w, i, [a EXCEPT !.eof_seen = 0, !.delayed_rc = 0,
                           !.keep_open = FALSE, !.no_cache = FALSE,
                           !.npeeked = 0, !.upeeked = 0]),
      rc |-> 0, len |-> 0, data |-> <<>>]

file_filter_peek(w, i, size) ==
  LET a == w.chain[i].filter_ov
  IN With(peek_more(w.os, a.fp, SubSeq(a.peeked, 1, a.npeeked)), LAMBDA r :
       With(Len(r.peeked), LAMBDA np :
         [w |-> SetOv([w EXCEPT !.os = r.os], i,
                      [a EXCEPT !.peeked = r.peeked, !.npeeked = np,
                         !.delayed_rc = IF r.n = 0 /\ np > 0 THEN -1
                                        ELSE IF r.n = -1 /\ np > 0 THEN GPG_ERR_EIO
                                        ELSE a.delayed_rc,
                         !.eof_seen = IF r.n = 0 /\ np = 0 THEN 1 ELSE a.eof_seen]),
          rc |-> 0, len |-> Min(np, size), data |-> Take(r.peeked, size)]))

file_filter_free(w, i) ==
  LET a == w.chain[i].filter_ov
  IN [w |-> IF a.fp # FD_FOR_STDIN /\ a.fp # FD_FOR_STDOUT /\ ~a.keep_open
              THEN fd_cache_close(w, IF a.no_cache THEN "" ELSE a.fname, a.fp)
            ELSE w,
      rc |-> 0, len |-> 0, data |-> <<>>]

file_filter(w, i, control, buf, size) ==
  CASE control = IOBUFCTRL_UNDERFLOW -> file_filter_underflow(w, i, size)
    [] control = IOBUFCTRL_FLUSH -> file_filter_flush(w, i, buf)
    [] control = IOBUFCTRL_INIT -> file_filter_init(w, i)
    [] control = IOBUFCTRL_PEEK -> file_filter_peek(w, i, size)
    [] control = IOBUFCTRL_FREE -> file_filter_free(w, i)
    [] OTHER -> [w |-> w, rc |-> 0, len |-> size, data |-> <<>>]

(***************************************************************************)
(* The chain engine and the filters that call back into it are mutually    *)
(* recursive: a filter's Underflow reads from the node after its own.      *)
(* A function's result that later steps need is handed to an operator      *)
(* that models the rest of the function.                                   *)
(***************************************************************************)
RECURSIVE iobuf_readbyte(_, _)
RECURSIVE iobuf_read(_, _, _, _)
RECURSIVE iobuf_writebyte(_, _, _)
RECURSIVE iobuf_write(_, _, _)
RECURSIVE underflow_target(_, _, _, _)
RECURSIVE filter_flush(_, _)
RECURSIVE CallFilter(_, _, _, _, _)

\* iobuf_get (a): the macro of iobuf.h; the buffered byte, or iobuf_readbyte.
iobuf_get(w, i) ==
  LET a == w.chain[i]
  IN IF a.nofast \/ a.d.start >= a.d.len
       THEN iobuf_readbyte(w, i)
     ELSE [w |-> [w EXCEPT !.chain[i].nbytes = a.nbytes + 1,
                           !.chain[i].d.start = a.d.start + 1],
           c |-> a.d.buf[a.d.start + 1]]

\* iobuf_put (a, c): the macro of iobuf.h.
iobuf_put(w, i, c) == iobuf_writebyte(w, i, c)

(***************************************************************************)
(* block_filter, read side.  The context is block_filter_ctx_t plus id.    *)
(***************************************************************************)
RECURSIVE Pow2(_)
Pow2(k) == IF k = 0 THEN 1 ELSE 2 * Pow2(k - 1)

\* The four iobuf_get calls of a five octet length; k octets are still to
\* be read, len is the value so far.  ok is FALSE when one is missing.
RECURSIVE bf_len4(_, _, _, _)
bf_len4_got(g, i, k, len) ==
  IF g.c = -1 THEN [w |-> g.w, ok |-> FALSE, len |-> len]
  ELSE bf_len4(g.w, i, k - 1, len * 256 + g.c)

bf_len4(w, i, k, len) ==
  IF k = 0 THEN [w |-> w, ok |-> TRUE, len |-> len]
  ELSE bf_len4_got(iobuf_get(w, i + 1), i, k, len)

\* A final length is known: a->size = len, a->partial = 2, and the end of
\* the data if it is 0.  n is the number of bytes delivered so far.
bf_final(w, i, len, n) ==
  LET a == w.chain[i].filter_ov
  IN IF len = 0
       THEN [w |-> SetOv(w, i, [a EXCEPT !.size = 0, !.partial = 2, !.eof = 1]),
             rc |-> IF n = 0 THEN -1 ELSE 0, brk |-> TRUE]
     ELSE [w |-> SetOv(w, i, [a EXCEPT !.size = len, !.partial = 2]),
           rc |-> 0, brk |-> FALSE]

\* As bf_header_2nd, but the length is the plain 14 bit number of the two
\* octets.
bf_header_2nd_plain(g2, i, c, n) ==
  IF g2.c = -1 THEN [w |-> g2.w, rc |-> GPG_ERR_BAD_DATA, brk |-> TRUE]
  ELSE bf_final(g2.w, i, (c - 192) * 256 + g2.c, n)

\* The second octet g2 of a two octet length whose first octet is c.
bf_header_2nd(g2, i, c, n) ==
  IF g2.c = -1 THEN [w |-> g2.w, rc |-> GPG_ERR_BAD_DATA, brk |-> TRUE]
  ELSE bf_final(g2.w, i, (c - 192) * 256 + g2.c + 192, n)

\* The four octets l4 of a five octet length.
bf_header_4(l4, i, n) ==
  IF ~l4.ok THEN [w |-> l4.w, rc |-> GPG_ERR_BAD_DATA, brk |-> TRUE]
  ELSE bf_final(l4.w, i, l4.len, n)

\* The first length octet g.c is in.
bf_header_1st(g, i, n) ==
  IF g.c = -1 THEN [w |-> g.w, rc |-> GPG_ERR_BAD_DATA, brk |-> TRUE]
  ELSE IF g.c < 192 THEN bf_final(g.w, i, g.c, n)
  ELSE IF g.c < 224
    THEN bf_header_2nd(
           iobuf_get([g.w EXCEPT !.chain[i].filter_ov.size = (g.c - 192) * 256],
                     i + 1),
           i, g.c, n)
  ELSE IF g.c = 255 THEN bf_header_4(bf_len4(g.w, i, 4, 0), i, n)
  ELSE [w |-> [g.w EXCEPT !.chain[i].filter_ov.size = Pow2(g.c % 32)],
        rc |-> 0, brk |-> FALSE]

\* "get the length bytes": the body of  if (!a->size)  in the Underflow loop.
\* brk says the loop is left by break.
bf_header(w, i, n) ==
  LET a == w.chain[i].filter_ov
  IN IF a.partial = 2
       THEN [w |-> SetOv(w, i, [a EXCEPT !.eof = 1]),
             rc |-> IF n = 0 THEN -1 ELSE 0, brk |-> TRUE]
     ELSE IF a.partial = 0
       THEN [w |-> Bug(w, "block_filter: BUG"), rc |-> 0, brk |-> TRUE]
     ELSE bf_header_1st(
            IF a.first_c # 0
              THEN [w |-> SetOv(w, i, [a EXCEPT !.first_c = 0]), c |-> a.first_c]
            ELSE iobuf_get(w, i + 1),
            i, n)

\* while (!rc && size && a->size): read the segment's bytes from the chain.
RECURSIVE bf_body(_, _, _, _)
\* As bf_body_got, but a short read ends the data like an end of file.
bf_body_got_eof(r, i, size, data, needed) ==
  IF r.n < needed
    THEN [w |-> r.w, rc |-> -1, size |-> size, data |-> data]
  ELSE bf_body([r.w EXCEPT !.chain[i].filter_ov.size = @ - r.n],
               i, size - r.n, data \o r.data)

bf_body_got(r, i, size, data, needed) ==
  IF r.n < needed
    THEN [w |-> r.w, rc |-> GPG_ERR_BAD_DATA, size |-> size, data |-> data]
  ELSE bf_body([r.w EXCEPT !.chain[i].filter_ov.size = @ - r.n],
               i, size - r.n, data \o r.data)

bf_body(w, i, size, data) ==
  LET a == w.chain[i].filter_ov
  IN IF size = 0 \/ a.size = 0 \/ w.abort # ""
       THEN [w |-> w, rc |-> 0, size |-> size, data |-> data]
     ELSE bf_body_got(iobuf_read(w, i + 1, TRUE, Min(size, a.size)),
                      i, size, data, Min(size, a.size))

\* while (!rc && size)
RECURSIVE bf_underflow_loop(_, _, _, _)
bf_loop_body(b, i) ==
  IF b.rc # 0 THEN [w |-> b.w, rc |-> b.rc, data |-> b.data]
  ELSE bf_underflow_loop(b.w, i, b.size, b.data)

bf_loop_header(hd, i, size, data) ==
  IF hd.brk \/ hd.rc # 0 THEN [w |-> hd.w, rc |-> hd.rc, data |-> data]
  ELSE bf_loop_body(bf_body(hd.w, i, size, data), i)

bf_underflow_loop(w, i, size, data) ==
  IF size = 0 \/ w.abort # "" THEN [w |-> w, rc |-> 0, data |-> data]
  ELSE bf_loop_header(
         IF w.chain[i].filter_ov.size = 0 THEN bf_header(w, i, Len(data))
         ELSE [w |-> w, rc |-> 0, brk |-> FALSE],
         i, size, data)

\* *ret_len = n
bf_underflow_done(r) ==
  [w |-> r.w, rc |-> r.rc, len |-> Len(r.data), data |-> r.data]

block_filter_underflow(w, i, size) ==
  IF size = 0
    THEN [w |-> Bug(w, "block_filter: log_assert (size)"), rc |-> 0, len |-> 0,
          data |-> <<>>]
  ELSE IF w.chain[i].filter_ov.eof # 0
    THEN [w |-> w, rc |-> -1, len |-> 0, data |-> <<>>]
  ELSE bf_underflow_done(bf_underflow_loop(w, i, size, <<>>))

(***************************************************************************)
(* block_filter, write side.                                               *)
(***************************************************************************)
\* for (blen = 2*512, c = 9+1; blen <= nbytes; blen *= 2, c++);
\* the values of blen and c when the loop ends.
RECURSIVE bf_best(_, _, _)
bf_best(blen, c, nbytes) ==
  IF blen <= nbytes THEN bf_best(blen * 2, c + 1, nbytes)
  ELSE [blen |-> blen, c |-> c]

\* One round of the do-while loop of Flush and, while it goes on, the next:
\* p is the input not yet written, nbytes the bytes pending (buffer and input).
RECURSIVE bf_flush_loop(_, _, _, _)
\* The round's data is written (wd): p += n; nbytes -= n; and the loop test.
bf_flush_wrote(wd, i, p, nbytes, rc1) ==
  IF wd.rc = 0 /\ rc1 = 0 /\ nbytes >= OP_MIN_PARTIAL_CHUNK /\ wd.w.abort = ""
    THEN bf_flush_loop(wd.w, i, p, nbytes)
  ELSE [w |-> wd.w, rc |-> IF wd.rc # 0 THEN GPG_ERR_EIO ELSE rc1,
        p |-> p, nbytes |-> nbytes]

\* The stashed bytes are written (wb, had says there were any): write the
\* round's n bytes of input.
bf_flush_stash(wb, i, p, nbytes, blen, had) ==
  LET w1 == IF had THEN [wb.w EXCEPT !.chain[i].filter_ov.buflen = 0,
                                     !.chain[i].filter_ov.buffer = <<>>]
            ELSE wb.w
      n == Min(nbytes, blen)
  IN bf_flush_wrote(IF n # 0 THEN iobuf_write(w1, i + 1, Take(p, n))
                    ELSE [w |-> w1, rc |-> 0],
                    i, Drop(p, n), nbytes - n,
                    IF wb.rc # 0 THEN GPG_ERR_EIO ELSE 0)

\* The partial length header is written (hd): write stuff from the buffer.
bf_flush_header(hd, i, p, nbytes, blen) ==
  LET a == hd.w.chain[i].filter_ov
  IN IF a.buflen # 0 /\ a.buflen # OP_MIN_PARTIAL_CHUNK
       THEN [w |-> Bug(hd.w, "block_filter: log_assert (n == OP_MIN_PARTIAL_CHUNK)"),
             rc |-> 0, p |-> p, nbytes |-> nbytes]
     ELSE bf_flush_stash(
            IF a.buflen # 0 THEN iobuf_write(hd.w, i + 1, a.buffer)
            ELSE [w |-> hd.w, rc |-> 0],
            i, p, nbytes - a.buflen, blen, a.buflen # 0)

bf_flush_loop(w, i, p, nbytes) ==
  LET best == bf_best(OP_MIN_PARTIAL_CHUNK * 2, OP_MIN_PARTIAL_CHUNK_2POW + 1, nbytes)
  IN IF best.c - 1 > 31
       THEN [w |-> Bug(w, "block_filter: log_assert (c <= 0x1f)"), rc |-> 0,
             p |-> p, nbytes |-> nbytes]
     ELSE bf_flush_header(iobuf_put(w, i + 1, 224 + (best.c - 1)), i, p, nbytes,
                          best.blen \div 2)

\* "store the rest in the buffer", after the loop ended with r.
bf_flush_rest(r, i, size) ==
  LET a == r.w.chain[i].filter_ov
  IN IF r.w.abort # "" THEN [w |-> r.w, rc |-> 0, len |-> size, data |-> <<>>]
     ELSE IF r.rc = 0 /\ r.nbytes # 0
       THEN IF a.buflen # 0 \/ r.nbytes >= OP_MIN_PARTIAL_CHUNK
              THEN [w |-> Bug(r.w, "block_filter: log_assert (!a->buflen)"),
                    rc |-> 0, len |-> size, data |-> <<>>]
            ELSE [w |-> SetOv(r.w, i, [a EXCEPT !.buffer = Take(r.p, r.nbytes),
                                                !.buflen = r.nbytes]),
                  rc |-> 0, len |-> size, data |-> <<>>]
     ELSE [w |-> r.w, rc |-> r.rc, len |-> size, data |-> <<>>]

block_filter_flush(w, i, buf) ==
  LET a == w.chain[i].filter_ov
      size == Len(buf)
      nbytes == size + a.buflen
  IN IF a.partial = 0
       THEN [w |-> Bug(w, "block_filter: BUG"), rc |-> 0, len |-> size, data |-> <<>>]
     ELSE IF a.buflen > OP_MIN_PARTIAL_CHUNK
       THEN [w |-> Bug(w, "block_filter: log_assert (a->buflen <= OP_MIN_PARTIAL_CHUNK)"),
             rc |-> 0, len |-> size, data |-> <<>>]
     ELSE IF nbytes < OP_MIN_PARTIAL_CHUNK
       THEN [w |-> SetOv(w, i, [a EXCEPT !.buffer = a.buffer \o buf,
                                         !.buflen = a.buflen + size]),
             rc |-> 0, len |-> size, data |-> <<>>]
     ELSE bf_flush_rest(bf_flush_loop(w, i, buf, nbytes), i, size)

\* The iobuf_put calls that write the octets of hdr, until one fails.
RECURSIVE bf_put_all(_, _, _)
bf_put_next(r, i, hdr) ==
  IF r.rc # 0 \/ r.w.abort # "" THEN r ELSE bf_put_all(r.w, i, hdr)

bf_put_all(w, i, hdr) ==
  IF hdr = <<>> THEN [w |-> w, rc |-> 0]
  ELSE bf_put_next(iobuf_put(w, i, Head(hdr)), i, Tail(hdr))

\* As bf_final_header, but the second octet of a two octet length is the
\* low octet of the length itself.
bf_final_header_low(len) ==
  IF len < 192 THEN <<len>>
  ELSE <<((len - 192) \div 256) + 192, len % 256>>

\* "construct header": the octets of the final length header.
bf_final_header(len) ==
  IF len < 192 THEN <<len>>
  ELSE IF len < 8384 THEN <<((len - 192) \div 256) + 192, (len - 192) % 256>>
  ELSE <<255, (len \div 16777216) % 256, (len \div 65536) % 256,
         (len \div 256) % 256, len % 256>>

\* The end of Free on an output stream: the write wd is done.
bf_free_done(wd, i) ==
  [w |-> [wd.w EXCEPT !.chain[i].filter_ov.buffer = <<>>,
                      !.chain[i].filter_ov.buflen = 0],
   rc |-> IF wd.rc # 0 THEN GPG_ERR_EIO ELSE 0, len |-> 0, data |-> <<>>]

\* The final header is written (hd): write the remaining len bytes.
bf_free_header(hd, i, len) ==
  IF hd.rc = 0 /\ len # 0
    THEN bf_free_done(iobuf_write(hd.w, i + 1, hd.w.chain[i].filter_ov.buffer), i)
  ELSE bf_free_done(hd, i)

block_filter_free(w, i) ==
  LET a == w.chain[i].filter_ov
  IN IF a.use = IOBUF_OUTPUT
       THEN IF a.partial = 0
              THEN [w |-> Bug(w, "block_filter: BUG"), rc |-> 0, len |-> 0, data |-> <<>>]
            ELSE bf_free_header(bf_put_all(w, i + 1, bf_final_header(a.buflen)),
                                i, a.buflen)
     ELSE [w |-> w, rc |-> 0, len |-> 0, data |-> <<>>]

block_filter_init(w, i) ==
  LET a == w.chain[i].filter_ov
  IN [w |-> SetOv(w, i, [a EXCEPT
               !.count = IF a.partial # 0 THEN 0
                         ELSE IF a.use = IOBUF_INPUT THEN 0 ELSE a.size,
               !.size = IF a.partial = 0 /\ a.use = IOBUF_INPUT THEN 0 ELSE a.size,
               !.eof = 0, !.buffer = <<>>, !.buflen = 0]),
      rc |-> 0, len |-> 0, data |-> <<>>]

block_filter(w, i, control, buf, size) ==
  CASE control = IOBUFCTRL_UNDERFLOW -> block_filter_underflow(w, i, size)
    [] control = IOBUFCTRL_FLUSH -> block_filter_flush(w, i, buf)
    [] control = IOBUFCTRL_INIT -> block_filter_init(w, i)
    [] control = IOBUFCTRL_FREE -> block_filter_free(w, i)
    [] OTHER -> [w |-> w, rc |-> 0, len |-> size, data |-> <<>>]

(***************************************************************************)
(* The identity filter of the push/pop scenario: Underflow forwards the    *)
(* request to the downstream node, Flush forwards the bytes to it.         *)
(***************************************************************************)
identity_underflow_done(r) ==
  IF r.n = -1 THEN [w |-> r.w, rc |-> -1, len |-> 0, data |-> <<>>]
  ELSE [w |-> r.w, rc |-> 0, len |-> r.n, data |-> r.data]

identity_flush_done(r, size) ==
  [w |-> r.w, rc |-> r.rc, len |-> size, data |-> <<>>]

identity_filter(w, i, control, buf, size) ==
  CASE control = IOBUFCTRL_UNDERFLOW ->
         identity_underflow_done(iobuf_read(w, i + 1, TRUE, size))
    [] control = IOBUFCTRL_FLUSH ->
         identity_flush_done(iobuf_write(w, i + 1, buf), size)
    [] OTHER -> [w |-> w, rc |-> 0, len |-> size, data |-> <<>>]

(***************************************************************************)
(* A filter of the caller that stops taking data: its Flush passes on to   *)
(* the downstream node what still fits in the room its context has, and    *)
(* reports how many bytes it has taken; its Free reports an error when     *)
(* data was lost that way.                                                 *)
(***************************************************************************)
short_flush_done(r, i, n, size) ==
  [w |-> SetOv(r.w, i, [r.w.chain[i].filter_ov EXCEPT
                          !.room = @ - n, !.lost = @ \/ n < size]),
   rc |-> r.rc, len |-> n, data |-> <<>>]

short_filter(w, i, control, buf, size) ==
  CASE control = IOBUFCTRL_FLUSH ->
         short_flush_done(iobuf_write(w, i + 1,
                                      Take(buf, Min(size, w.chain[i].filter_ov.room))),
                          i, Min(size, w.chain[i].filter_ov.room), size)
    [] control = IOBUFCTRL_FREE ->
         [w |-> w, rc |-> IF w.chain[i].filter_ov.lost THEN GPG_ERR_EIO ELSE 0,
          len |-> 0, data |-> <<>>]
    [] OTHER -> [w |-> w, rc |-> 0, len |-> size, data |-> <<>>]

(***************************************************************************)
(* The decompressing side of the compress filter of g10/compress.c.  zlib  *)
(* is a library outside the repository: inflate is modelled by a           *)
(* run-length code in which the octet Z_END_CODE ends the stream and every *)
(* other octet stands for INFLATE_RATIO octets of output.  The z_stream    *)
(* is part of the filter context: zin is next_in[0 .. avail_in - 1], zpend *)
(* the output inflate holds back for lack of room, zend that the end of    *)
(* the stream was read.                                                    *)
(***************************************************************************)
INFLATE_RATIO == 4

Z_END_CODE == 10

Z_OK == "Z_OK"
Z_STREAM_END == "Z_STREAM_END"
Z_BUF_ERROR == "Z_BUF_ERROR"

\* zfx->inbufsize = 2048;
COMPRESS_INBUFSIZE == 2048

\* cfx = xmalloc_clear (sizeof *cfx); cfx->algo = cd->algorithm;
NewCompressCtx(id, algo) ==
  [id |-> id, status |-> 0, algo |-> algo, algo1hack |-> 0,
   zin |-> <<>>, zpend |-> <<>>, zend |-> FALSE]

\* The output one input octet stands for.
Expand(b) == [j \in 1 .. INFLATE_RATIO |-> (INFLATE_RATIO * b + j - 1) % 256]

\* The position of the first Z_END_CODE in s, or 0.
EndPos(s) ==
  LET S == {k \in 1 .. Len(s) : s[k] = Z_END_CODE}
  IN IF S = {} THEN 0 ELSE CHOOSE k \in S : \A m \in S : k <= m

\* inflate's work with room octets of output space: the output held back
\* goes first; then input octets are taken while there is room, each for
\* the output it stands for, and the end code when room is left after them.
inflate_run(z, room) ==
  LET p == Min(room, Len(z.zpend))
      room1 == room - p
      lits == IF EndPos(z.zin) = 0 THEN z.zin ELSE Take(z.zin, EndPos(z.zin) - 1)
      c == Min(Len(lits), (room1 + INFLATE_RATIO - 1) \div INFLATE_RATIO)
      all == [j \in 1 .. INFLATE_RATIO * c |->
                Expand(lits[((j - 1) \div INFLATE_RATIO) + 1])[((j - 1) % INFLATE_RATIO) + 1]]
      ended == EndPos(z.zin) # 0 /\ INFLATE_RATIO * Len(lits) < room1
  IN IF room1 = 0 \/ z.zend
       THEN [z |-> [z EXCEPT !.zpend = Drop(z.zpend, p)], out |-> Take(z.zpend, p)]
     ELSE [z |-> [z EXCEPT !.zpend = Drop(all, room1),
                           !.zin = Drop(z.zin, c + (IF ended THEN 1 ELSE 0)),
                           !.zend = ended],
           out |-> z.zpend \o Take(all, room1)]

\* inflate's return code: the stream ended, no progress was possible, or OK.
inflate_zrc(z, r) ==
  IF r.z.zend /\ r.z.zpend = <<>> THEN Z_STREAM_END
  ELSE IF r.z = z THEN Z_BUF_ERROR
  ELSE Z_OK

\* zrc = inflate (zs, Z_SYNC_FLUSH);
inflate(z, avail_out) ==
  [z |-> inflate_run(z, avail_out).z,
   out |-> inflate_run(z, avail_out).out,
   zrc |-> inflate_zrc(z, inflate_run(z, avail_out))]

RECURSIVE uc_loop(_, _, _, _, _)
\* inflate returned r: the loop test of do_uncompress and its return.
uc_inflated(r, w, i, size, out, leave) ==
  IF r.zrc = Z_STREAM_END
    THEN [w |-> SetOv(w, i, r.z), rc |-> -1,
          len |-> Len(out) + Len(r.out), data |-> out \o r.out]
  ELSE IF Len(out) + Len(r.out) < size /\ r.zrc # Z_BUF_ERROR /\ ~leave
    THEN uc_loop(SetOv(w, i, r.z), i, size, out \o r.out, TRUE)
  ELSE [w |-> SetOv(w, i, r.z), rc |-> 0,
        len |-> Len(out) + Len(r.out), data |-> out \o r.out]

\* The input buffer was refilled by the read r of the downstream node.
uc_refilled(r, i, size, out) ==
  LET zfx == r.w.chain[i].filter_ov
      count == COMPRESS_INBUFSIZE - Len(zfx.zin)
      nread == IF r.n = -1 THEN 0 ELSE r.n
      hack == nread < count /\ zfx.algo = 1 /\ zfx.algo1hack < 4
      zfx1 == [zfx EXCEPT !.zin = zfx.zin \o r.data
                                    \o (IF hack THEN <<255>> ELSE <<>>),
                          !.algo1hack = IF hack THEN zfx.algo1hack + 1
                                        ELSE zfx.algo1hack]
  IN uc_inflated(inflate(zfx1, size - Len(out)), r.w, i, size, out, hack)

\* One round of the do loop of do_uncompress.
uc_loop(w, i, size, out, refill) ==
  LET zfx == w.chain[i].filter_ov
  IN IF Len(zfx.zin) < COMPRESS_INBUFSIZE /\ refill
       THEN uc_refilled(iobuf_read(w, i + 1, TRUE, COMPRESS_INBUFSIZE - Len(zfx.zin)),
                        i, size, out)
     ELSE uc_inflated(inflate(zfx, size - Len(out)), w, i, size, out, FALSE)

\* int refill = !zs->avail_in;
do_uncompress(w, i, size) ==
  uc_loop(w, i, size, <<>>, w.chain[i].filter_ov.zin = <<>>)

\* if (!zfx->status) { init_uncompress (zfx, zs); zfx->status = 1; }
init_uncompress(w, i) ==
  SetOv(w, i, [w.chain[i].filter_ov EXCEPT !.status = 1, !.zin = <<>>])

compress_filter(w, i, control, buf, size) ==
  CASE control = IOBUFCTRL_UNDERFLOW ->
         do_uncompress(IF w.chain[i].filter_ov.status = 0 THEN init_uncompress(w, i)
                       ELSE w, i, size)
    [] control = IOBUFCTRL_FLUSH ->
         [w |-> Bug(w, "compress_filter: the deflate side is not modelled"),
          rc |-> 0, len |-> size, data |-> <<>>]
    [] OTHER -> [w |-> w, rc |-> 0, len |-> size, data |-> <<>>]

\* a->filter (a->filter_ov, control, a->chain, buf, &len); the call is logged.
CallLogged(wl, i, f, control, buf, size) ==
  CASE f = FileFilter -> file_filter(wl, i, control, buf, size)
    [] f = BlockFilter -> block_filter(wl, i, control, buf, size)
    [] f = IdentityFilter -> identity_filter(wl, i, control, buf, size)
    [] f = ShortFilter -> short_filter(wl, i, control, buf, size)
    [] f = CompressFilter -> compress_filter(wl, i, control, buf, size)
    [] OTHER -> [w |-> Bug(wl, "call through a NULL filter"), rc |-> 0,
                 len |-> 0, data |-> <<>>]

CallFilter(w, i, control, buf, size) ==
  CallLogged(Logged(w, w.chain[i].filter_ov.id, control, size), i,
             w.chain[i].filter, control, buf, size)

(***************************************************************************)
(* The chain engine.                                                       *)
(***************************************************************************)
\* a->e_d.buf = NULL; a->e_d.len = 0;
ClearEd(a) == [a EXCEPT !.e_d.set = FALSE, !.e_d.len = 0, !.e_d.data = <<>>]

IsOutput(a) == a.use = IOBUF_OUTPUT \/ a.use = IOBUF_OUTPUT_TEMP

IsInput(a) == a.use = IOBUF_INPUT \/ a.use = IOBUF_INPUT_TEMP

\* As uf_return, but the byte returned stays in the buffer.
uf_return_kept(w, i) ==
  LET a == w.chain[i]
  IN IF a.e_d.used > 0 THEN [w |-> w, c |-> 0]
     ELSE IF a.d.start < a.d.len THEN [w |-> w, c |-> a.d.buf[a.d.start + 1]]
     ELSE [w |-> w, c |-> -1]

\* The end of underflow_target: 0 when the external buffer was used, else
\* the first buffered byte, else -1.
uf_return(w, i) ==
  LET a == w.chain[i]
  IN IF a.d.start > a.d.len
       THEN [w |-> Bug(w, "underflow: log_assert (a->d.start <= a->d.len)"), c |-> -1]
     ELSE IF a.e_d.used > 0 THEN [w |-> w, c |-> 0]
     ELSE IF a.d.start < a.d.len
       THEN [w |-> [w EXCEPT !.chain[i].d.start = a.d.start + 1],
             c |-> a.d.buf[a.d.start + 1]]
     ELSE [w |-> w, c |-> -1]

\* if (rc == -1), after the filter was told to free itself (fr).
uf_freed(fr, i, clear_pending_eof) ==
  LET a4 == [fr.w.chain[i] EXCEPT !.filter_ov = NullOv, !.filter = NoFilter,
                                  !.filter_ov_owner = FALSE, !.filter_eof = TRUE]
      w4 == SetNode(fr.w, i, a4)
  IN IF clear_pending_eof /\ a4.d.len = 0 /\ a4.e_d.used = 0 /\ i < Len(w4.chain)
       THEN [w |-> Splice(w4, i), c |-> -1]
     ELSE IF a4.d.len = 0 /\ a4.e_d.used = 0 THEN [w |-> w4, c |-> -1]
     ELSE uf_return(w4, i)

\* The filter returned r: to the external buffer when zc, else to the end
\* of the internal buffer.
uf_filled(r, i, clear_pending_eof, zc) ==
  LET a2 == r.w.chain[i]
      a3 == IF zc THEN [a2 EXCEPT !.e_d.used = r.len, !.e_d.data = r.data]
            ELSE [a2 EXCEPT !.d.buf = a2.d.buf \o r.data, !.d.len = a2.d.len + r.len]
      w3 == SetNode(r.w, i, a3)
  IN IF r.rc = -1
       THEN uf_freed(CallFilter(w3, i, IOBUFCTRL_FREE, <<>>, 0), i, clear_pending_eof)
     ELSE IF r.rc # 0
       THEN IF a3.d.len = 0 /\ a3.e_d.used = 0
              THEN [w |-> [w3 EXCEPT !.chain[i].error = r.rc], c |-> -1]
            ELSE uf_return([w3 EXCEPT !.chain[i].error = r.rc], i)
     ELSE uf_return(w3, i)

\* The branch of underflow_target that calls the filter to fill the buffer.
uf_fill(w, i, clear_pending_eof) ==
  LET a == w.chain[i]
      len0 == a.d.size - a.d.len
      len1 == IF a.e_d.preferred /\ a.d.len < IOBUF_ZEROCOPY_THRESHOLD_SIZE
                 /\ (IOBUF_ZEROCOPY_THRESHOLD_SIZE - a.d.len) < len0
                THEN IOBUF_ZEROCOPY_THRESHOLD_SIZE - a.d.len ELSE len0
      zc == len1 # 0 /\ a.d.len = 0 /\ a.e_d.set
            /\ a.e_d.len >= IOBUF_ZEROCOPY_THRESHOLD_SIZE
  IN uf_filled(IF len1 = 0 THEN [w |-> w, rc |-> 0, len |-> 0, data |-> <<>>]
               ELSE CallFilter(w, i, IOBUFCTRL_UNDERFLOW, <<>>,
                               IF zc THEN a.e_d.len ELSE len1),
               i, clear_pending_eof, zc)

underflow_target(w, i, clear_pending_eof, target) ==
  LET a0 == w.chain[i]
      a1 == [a0 EXCEPT !.e_d.used = 0,
                       !.d.buf = Drop(a0.d.buf, a0.d.start),
                       !.d.len = a0.d.len - a0.d.start,
                       !.d.start = 0]
      w1 == SetNode(w, i, a1)
  IN IF a0.use = IOBUF_INPUT_TEMP THEN [w |-> w, c |-> -1]
     ELSE IF a0.use # IOBUF_INPUT
       THEN [w |-> Bug(w, "underflow: log_assert (a->use == IOBUF_INPUT)"), c |-> -1]
     ELSE IF a0.d.start > a0.d.len
       THEN [w |-> Bug(w, "underflow: log_assert (a->d.start <= a->d.len)"), c |-> -1]
     ELSE IF a1.d.len < target /\ a1.filter_eof
       THEN IF ~clear_pending_eof THEN [w |-> w1, c |-> -1]
            ELSE IF i < Len(w1.chain) THEN [w |-> Splice(w1, i), c |-> -1]
            ELSE [w |-> [w1 EXCEPT !.chain[i].filter_eof = FALSE], c |-> -1]
     ELSE IF a1.d.len = 0 /\ a1.error # 0 THEN [w |-> w1, c |-> -1]
     ELSE IF a1.filter # NoFilter /\ ~a1.filter_eof /\ a1.error = 0
       THEN uf_fill(w1, i, clear_pending_eof)
     ELSE uf_return(w1, i)

underflow(w, i, clear_pending_eof) == underflow_target(w, i, clear_pending_eof, 1)

\* The filter's Flush returned r for src_len bytes.
flush_done(r, i, src_len, external_used) ==
  LET a2 == r.w.chain[i]
  IN [w |-> SetNode(r.w, i,
              [a2 EXCEPT !.error = IF r.rc # 0 THEN r.rc ELSE a2.error,
                         !.d.len = 0, !.d.buf = <<>>,
                         !.e_d.used = IF external_used THEN r.len ELSE a2.e_d.used]),
      rc |-> IF r.rc = 0 /\ r.len # src_len THEN GPG_ERR_INTERNAL ELSE r.rc]

filter_flush(w, i) ==
  LET a == w.chain[i]
      w1 == [w EXCEPT !.chain[i].e_d.used = 0]
      external_used == a.d.len = 0 /\ a.e_d.set /\ a.e_d.len > 0
      src == IF external_used THEN Take(a.e_d.data, a.e_d.len) ELSE a.d.buf
  IN IF a.use = IOBUF_OUTPUT_TEMP
       THEN [w |-> [w1 EXCEPT !.chain[i].d.size = a.d.size + w.bufsize], rc |-> 0]
     ELSE IF a.use # IOBUF_OUTPUT
       THEN [w |-> Bug(w1, "flush on non-output iobuf"), rc |-> 0]
     ELSE IF a.filter = NoFilter
       THEN [w |-> Bug(w1, "filter_flush: no filter"), rc |-> 0]
     ELSE flush_done(CallFilter(w1, i, IOBUFCTRL_FLUSH, src, Len(src)), i,
                     Len(src), external_used)

\* a->nbytes++ after underflow returned r.
readbyte_done(r, i) ==
  IF r.c = -1 THEN r
  ELSE [w |-> [r.w EXCEPT !.chain[i].nbytes = @ + 1], c |-> r.c]

iobuf_readbyte(w, i) ==
  LET a == w.chain[i]
  IN IF IsOutput(a)
       THEN [w |-> Bug(w, "iobuf_readbyte called on a non-INPUT pipeline!"), c |-> -1]
     ELSE IF a.d.start > a.d.len
       THEN [w |-> Bug(w, "iobuf_readbyte: log_assert (a->d.start <= a->d.len)"),
             c |-> -1]
     ELSE IF a.nlimit # 0 /\ a.nbytes >= a.nlimit THEN [w |-> w, c |-> -1]
     ELSE IF a.d.start < a.d.len
       THEN [w |-> [w EXCEPT !.chain[i].d.start = a.d.start + 1,
                             !.chain[i].nbytes = a.nbytes + 1],
             c |-> a.d.buf[a.d.start + 1]]
     ELSE readbyte_done(underflow(w, i, TRUE), i)

\* The for loop of iobuf_read when a->nlimit is set.
RECURSIVE iobuf_read_limited(_, _, _, _, _)
read_limited_got(r, i, buflen, n, data) ==
  IF r.c = -1 THEN [w |-> r.w, n |-> IF n = 0 THEN -1 ELSE n, data |-> data]
  ELSE iobuf_read_limited(r.w, i, buflen, n + 1, Append(data, r.c))

iobuf_read_limited(w, i, buflen, n, data) ==
  IF n >= buflen THEN [w |-> w, n |-> n, data |-> data]
  ELSE read_limited_got(iobuf_readbyte(w, i), i, buflen, n, data)

\* The do-while loop of iobuf_read: n bytes are in, data holds them.
RECURSIVE iobuf_read_loop(_, _, _, _, _, _)
\* underflow returned u after n1 bytes were in.
read_loop_got(u, i, hasbuf, buflen, n1, data1) ==
  LET a3 == u.w.chain[i]
      ext == a3.e_d.set /\ a3.e_d.used > 0
      n2 == IF ext THEN n1 + a3.e_d.used ELSE n1 + 1
      data2 == IF ext THEN data1 \o a3.e_d.data ELSE Append(data1, u.c)
      w3 == SetNode(u.w, i, ClearEd(a3))
  IN IF u.c = -1
       THEN [w |-> SetNode(u.w, i, [ClearEd(a3) EXCEPT !.nbytes = a3.nbytes + n1]),
             n |-> IF n1 # 0 THEN n1 ELSE -1, data |-> data1]
     ELSE IF n2 < buflen /\ u.w.abort = ""
       THEN iobuf_read_loop(w3, i, hasbuf, buflen, n2, data2)
     ELSE [w |-> [w3 EXCEPT !.chain[i].nbytes = a3.nbytes + n2],
           n |-> n2, data |-> data2]

iobuf_read_loop(w, i, hasbuf, buflen, n, data) ==
  LET a == w.chain[i]
      size == IF n < buflen /\ a.d.start < a.d.len
                THEN Min(a.d.len - a.d.start, buflen - n) ELSE 0
      data1 == data \o SubSeq(a.d.buf, a.d.start + 1, a.d.start + size)
      n1 == n + size
      a1 == [a EXCEPT !.d.start = a.d.start + size]
      edlen == ((buflen - n1) \div IOBUF_ZEROCOPY_THRESHOLD_SIZE)
               * IOBUF_ZEROCOPY_THRESHOLD_SIZE
      a2 == IF a.use # IOBUF_INPUT_TEMP /\ hasbuf
              THEN [a1 EXCEPT !.e_d.set = edlen # 0, !.e_d.len = edlen,
                              !.e_d.data = <<>>]
            ELSE a1
  IN IF n1 < buflen
       THEN read_loop_got(underflow(SetNode(w, i, a2), i, TRUE), i, hasbuf, buflen,
                          n1, data1)
     ELSE [w |-> SetNode(w, i, [a1 EXCEPT !.nbytes = a.nbytes + n1]),
           n |-> n1, data |-> data1]

\* iobuf_read (a, buffer, buflen); hasbuf is buffer != NULL.  data holds the
\* bytes stored in buffer (the bytes passed over when buffer is NULL).
iobuf_read(w, i, hasbuf, buflen) ==
  LET a == w.chain[i]
  IN IF IsOutput(a)
       THEN [w |-> Bug(w, "iobuf_read called on a non-INPUT pipeline!"),
             n |-> -1, data |-> <<>>]
     ELSE IF a.nlimit # 0 THEN iobuf_read_limited(w, i, buflen, 0, <<>>)
     ELSE iobuf_read_loop(
            SetNode(w, i, [ClearEd(a) EXCEPT !.e_d.preferred =
                             a.use # IOBUF_INPUT_TEMP /\ hasbuf
                             /\ buflen >= IOBUF_ZEROCOPY_THRESHOLD_SIZE]),
            i, hasbuf, buflen, 0, <<>>)

\* a->d.buf[a->d.len++] = c, after the flush f of a full buffer.
writebyte_store(f, i, c) ==
  LET a1 == f.w.chain[i]
  IN IF f.rc # 0 \/ f.w.abort # "" THEN f
     ELSE IF a1.d.len >= a1.d.size
       THEN [w |-> Bug(f.w, "iobuf_writebyte: log_assert (a->d.len < a->d.size)"),
             rc |-> -1]
     ELSE [w |-> SetNode(f.w, i, [a1 EXCEPT !.d.buf = Append(a1.d.buf, c),
                                            !.d.len = a1.d.len + 1]),
           rc |-> 0]

iobuf_writebyte(w, i, c) ==
  LET a == w.chain[i]
  IN IF IsInput(a)
       THEN [w |-> Bug(w, "iobuf_writebyte called on an input pipeline!"), rc |-> -1]
     ELSE writebyte_store(IF a.d.len = a.d.size THEN filter_flush(w, i)
                          ELSE [w |-> w, rc |-> 0],
                          i, c)

\* The do-while loop of iobuf_write: buf is what is left to write.
RECURSIVE iobuf_write_loop(_, _, _)
\* The round's flush f is done; buf2 was left before it.
write_loop_flushed(f, i, buf2) ==
  LET a3 == f.w.chain[i]
      buf3 == IF a3.e_d.set /\ a3.e_d.used > 0 THEN Drop(buf2, a3.e_d.used) ELSE buf2
      w3 == SetNode(f.w, i, ClearEd(a3))
  IN IF f.rc # 0 \/ f.w.abort # "" THEN [w |-> w3, rc |-> f.rc]
     ELSE IF Len(buf3) # 0 THEN iobuf_write_loop(w3, i, buf3)
     ELSE [w |-> w3, rc |-> 0]

iobuf_write_loop(w, i, buf) ==
  LET a == w.chain[i]
      buflen == Len(buf)
      a1 == IF a.use # IOBUF_OUTPUT_TEMP /\ a.d.len = 0
               /\ buflen >= IOBUF_ZEROCOPY_THRESHOLD_SIZE
              THEN [a EXCEPT !.e_d.set = TRUE, !.e_d.data = buf,
                             !.e_d.len = (buflen \div IOBUF_ZEROCOPY_THRESHOLD_SIZE)
                                         * IOBUF_ZEROCOPY_THRESHOLD_SIZE]
            ELSE a
      copy == ~a1.e_d.set /\ buflen # 0 /\ a1.d.len < a1.d.size
      size == IF ~copy THEN 0
              ELSE Min(buflen,
                       IF a1.e_d.preferred /\ a1.d.len < IOBUF_ZEROCOPY_THRESHOLD_SIZE
                         THEN IOBUF_ZEROCOPY_THRESHOLD_SIZE - a1.d.len
                       ELSE a1.d.size - a1.d.len)
      a2 == [a1 EXCEPT !.d.buf = a1.d.buf \o Take(buf, size),
                       !.d.len = a1.d.len + size]
  IN write_loop_flushed(IF buflen - size # 0 THEN filter_flush(SetNode(w, i, a2), i)
                        ELSE [w |-> SetNode(w, i, a2), rc |-> 0],
                        i, Drop(buf, size))

iobuf_write(w, i, buf) ==
  LET a == w.chain[i]
  IN IF IsInput(a)
       THEN [w |-> Bug(w, "iobuf_write called on an input pipeline!"), rc |-> -1]
     ELSE iobuf_write_loop(
            SetNode(w, i, [ClearEd(a) EXCEPT !.e_d.preferred =
                             a.use # IOBUF_OUTPUT_TEMP
                             /\ Len(buf) >= IOBUF_ZEROCOPY_THRESHOLD_SIZE]),
            i, buf)

\* Control never returns to the caller: a loop that makes no progress.
Hang(w, msg) == Bug(w, "hang: " \o msg)

\* The while loop of iobuf_peek.
RECURSIVE iobuf_peek_loop(_, _, _)
\* As peek_loop_got, but the byte underflow_target returned is not put back.
peek_loop_got_consumed(u, w, i, buflen) ==
  IF u.c = -1 \/ u.w.abort # "" THEN u.w
  ELSE IF u.w = w THEN Hang(u.w, "iobuf_peek")
  ELSE iobuf_peek_loop(u.w, i, buflen)

\* underflow_target returned u in a round that began in w.
peek_loop_got(u, w, i, buflen) ==
  LET w1 == [u.w EXCEPT !.chain[i].d.start = 0]
  IN IF u.c = -1 \/ u.w.abort # "" THEN u.w
     ELSE IF u.w.chain[i].d.start # 1
       THEN Bug(u.w, "iobuf_peek: log_assert (a->d.start == 1)")
     ELSE IF w1 = w THEN Hang(w1, "iobuf_peek")
     ELSE iobuf_peek_loop(w1, i, buflen)

iobuf_peek_loop(w, i, buflen) ==
  IF buflen > w.chain[i].d.len - w.chain[i].d.start
    THEN peek_loop_got(underflow_target(w, i, FALSE, buflen), w, i, buflen)
  ELSE w

\* The end of iobuf_peek: the loop left the world w1.
peek_done(w1, i, buflen) ==
  LET a == w1.chain[i]
      n == Min(a.d.len - a.d.start, buflen)
  IN IF w1.abort # "" \/ n = 0 THEN [w |-> w1, n |-> -1, data |-> <<>>]
     ELSE [w |-> w1, n |-> n, data |-> SubSeq(a.d.buf, a.d.start + 1, a.d.start + n)]

iobuf_peek(w, i, buflen) ==
  IF buflen <= 0
    THEN [w |-> Bug(w, "iobuf_peek: log_assert (buflen > 0)"), n |-> -1, data |-> <<>>]
  ELSE IF ~IsInput(w.chain[i])
    THEN [w |-> Bug(w, "iobuf_peek: log_assert (a->use == IOBUF_INPUT ...)"),
          n |-> -1, data |-> <<>>]
  ELSE peek_done(iobuf_peek_loop(w, i, Min(buflen, w.chain[i].d.size)), i,
                 Min(buflen, w.chain[i].d.size))

\* The for loop of iobuf_close: the head node is closed and freed, then the
\* node after it.
RECURSIVE iobuf_close_from(_, _)
\* The node's filter was told to free itself (fr); rc1 is rc so far.
close_freed(fr, rc1) ==
  IF fr.w.abort # "" THEN [w |-> fr.w, rc |-> rc1]
  ELSE iobuf_close_from([fr.w EXCEPT !.chain = Tail(fr.w.chain)],
                        IF rc1 = 0 /\ fr.rc # 0 THEN fr.rc ELSE rc1)

\* The node was flushed (f.rc is rc now).
close_flushed(f) ==
  close_freed(IF f.w.chain[1].filter # NoFilter /\ f.w.abort = ""
                THEN CallFilter(f.w, 1, IOBUFCTRL_FREE, <<>>, 0)
              ELSE [w |-> f.w, rc |-> 0],
              f.rc)

\* As iobuf_close_from, but the node is not flushed before its filter is
\* told to free itself.
iobuf_close_noflush(w, rc) ==
  IF w.chain = <<>> \/ w.abort # "" THEN [w |-> w, rc |-> rc]
  ELSE close_flushed([w |-> w, rc |-> rc])

iobuf_close_from(w, rc) ==
  IF w.chain = <<>> \/ w.abort # "" THEN [w |-> w, rc |-> rc]
  ELSE close_flushed(IF w.chain[1].use = IOBUF_OUTPUT THEN filter_flush(w, 1)
                     ELSE [w |-> w, rc |-> rc])

iobuf_close(w) == iobuf_close_from(w, 0)

\* As too_deeply_nested, but one level more is let through.
too_deeply_nested_above(a) == a.subno > MAX_NESTING_FILTER

\* if (a->subno >= MAX_NESTING_FILTER)
too_deeply_nested(a) == a.subno >= MAX_NESTING_FILTER

\* The new filter's Init returned.
push_inited(init) == [w |-> init.w, rc |-> init.rc]

\* The head was flushed (fl): the nesting check and the push itself.
push_flushed(fl, f, ov, rel_ov) ==
  LET a == fl.w.chain[1]
      b == [a EXCEPT !.addr = FreshAddr(fl.w)]
      temp == a.use = IOBUF_OUTPUT_TEMP \/ a.use = IOBUF_INPUT_TEMP
      newa == [a EXCEPT
                 !.filter_eof = FALSE,
                 !.use = IF a.use = IOBUF_OUTPUT_TEMP THEN IOBUF_OUTPUT
                         ELSE IF a.use = IOBUF_INPUT_TEMP THEN IOBUF_INPUT
                         ELSE a.use,
                 !.d = [buf |-> <<>>, start |-> 0, len |-> 0,
                        size |-> IF temp THEN fl.w.bufsize ELSE a.d.size],
                 !.ntotal = b.ntotal + b.nbytes,
                 !.nlimit = 0, !.nbytes = 0, !.nofast = FALSE,
                 !.filter = f, !.filter_ov = ov, !.filter_ov_owner = rel_ov,
                 !.subno = b.subno + 1]
      w1 == [fl.w EXCEPT !.chain = <<newa, b>> \o Tail(fl.w.chain)]
  IN IF fl.rc # 0 \/ fl.w.abort # "" THEN [w |-> fl.w, rc |-> fl.rc]
     ELSE IF too_deeply_nested(a) THEN [w |-> fl.w, rc |-> GPG_ERR_BAD_DATA]
     ELSE IF f = NoFilter THEN [w |-> w1, rc |-> 0]
     ELSE push_inited(CallFilter(w1, 1, IOBUFCTRL_INIT, <<>>, 0))

iobuf_push_filter2(w, f, ov, rel_ov) ==
  push_flushed(IF w.chain[1].use = IOBUF_OUTPUT THEN filter_flush(w, 1)
               ELSE [w |-> w, rc |-> 0],
               f, ov, rel_ov)

iobuf_push_filter(w, f, ov) == iobuf_push_filter2(w, f, ov, FALSE)

\* for (b = a; b; b = b->chain) if (b->filter == f && (!ov || b->filter_ov == ov))
\* break;  ovid = 0 is ov == NULL.  The position found, or 0.
FindFilter(w, f, ovid) ==
  LET S == {k \in 1 .. Len(w.chain) :
              w.chain[k].filter = f /\ (ovid = 0 \/ w.chain[k].filter_ov.id = ovid)}
  IN IF S = {} THEN 0 ELSE CHOOSE k \in S : \A j \in S : k <= j

\* "and see how to remove it", after the filter at k was told to free itself.
pop_freed(fr, k) ==
  LET w2 == IF fr.w.chain[k].filter_ov_owner THEN SetOv(fr.w, k, NullOv) ELSE fr.w
  IN IF fr.rc # 0 \/ fr.w.abort # "" THEN [w |-> fr.w, rc |-> fr.rc]
     ELSE IF k = 1 /\ Len(w2.chain) = 1
       THEN [w |-> Bug(w2, "can't remove the last filter from the chain"), rc |-> 0]
     ELSE IF k = 1 THEN [w |-> Splice(w2, 1), rc |-> 0]
     ELSE IF k = Len(w2.chain)
       THEN [w |-> Bug(w2, "Ohh jeee, trying to remove a head filter"), rc |-> 0]
     ELSE [w |-> Bug(w2, "Ohh jeee, trying to remove an intermediate filter"), rc |-> 0]

\* The node at k was flushed (fl).
pop_flushed(fl, k) ==
  IF fl.rc # 0 \/ fl.w.abort # "" THEN [w |-> fl.w, rc |-> fl.rc]
  ELSE pop_freed(IF fl.w.chain[k].filter # NoFilter
                   THEN CallFilter(fl.w, k, IOBUFCTRL_FREE, <<>>, 0)
                 ELSE [w |-> fl.w, rc |-> 0],
                 k)

iobuf_pop_filter(w, f, ovid) ==
  LET a == w.chain[1]
      k == FindFilter(w, f, ovid)
  IN IF a.use = IOBUF_INPUT_TEMP \/ a.use = IOBUF_OUTPUT_TEMP
       THEN IF Len(w.chain) > 1
              THEN [w |-> Bug(w, "iobuf_pop_filter: log_assert (! a->chain)"), rc |-> 0]
            ELSE [w |-> w, rc |-> 0]
     ELSE IF a.filter = NoFilter
       THEN IF Len(w.chain) = 1
              THEN [w |-> Bug(w, "iobuf_pop_filter: log_assert (b)"), rc |-> 0]
            ELSE [w |-> Splice(w, 1), rc |-> 0]
     ELSE IF k = 0
       THEN [w |-> Bug(w, "iobuf_pop_filter(): filter function not found"), rc |-> 0]
     ELSE pop_flushed(IF a.use = IOBUF_OUTPUT THEN filter_flush(w, k)
                      ELSE [w |-> w, rc |-> 0],
                      k)

(***************************************************************************)
(* iobuf_copy.  The source is w.chain, the destination the chain dest; a   *)
(* call on the destination runs in the world with the chains exchanged.    *)
(***************************************************************************)
iobuf_error(a) == a.error

RECURSIVE copy_loop(_, _, _, _)
\* err = iobuf_write (dest, temp, nread) returned wr; source is the chain of
\* the source meanwhile.
copy_wrote(wr, source, temp_size, nwrote, nread) ==
  IF wr.rc # 0 \/ wr.w.abort # ""
    THEN [w |-> [wr.w EXCEPT !.chain = source], dest |-> wr.w.chain, n |-> nwrote]
  ELSE copy_loop([wr.w EXCEPT !.chain = source], wr.w.chain, temp_size,
                 nwrote + nread)

\* nread = iobuf_read (source, temp, temp_size) returned r.
copy_read(r, dest, temp_size, nwrote) ==
  IF r.n = -1 \/ r.w.abort # "" THEN [w |-> r.w, dest |-> dest, n |-> nwrote]
  ELSE copy_wrote(iobuf_write([r.w EXCEPT !.chain = dest], 1, r.data),
                  r.w.chain, temp_size, nwrote, r.n)

copy_loop(w, dest, temp_size, nwrote) ==
  copy_read(iobuf_read(w, 1, TRUE, temp_size), dest, temp_size, nwrote)

\* The value is -1 for (size_t)(-1).  temp_size is iobuf_set_buffer_size (0),
\* the buffer size in KiB, times 1024.
iobuf_copy(w, dest) ==
  IF ~(w.chain[1].use = IOBUF_INPUT \/ w.chain[1].use = IOBUF_INPUT_TEMP)
    THEN [w |-> Bug(w, "iobuf_copy: log_assert (source->use)"), dest |-> dest, n |-> 0]
  ELSE IF ~(dest[1].use = IOBUF_OUTPUT \/ w.chain[1].use = IOBUF_OUTPUT_TEMP)
    THEN [w |-> Bug(w, "iobuf_copy: log_assert (dest->use)"), dest |-> dest, n |-> 0]
  ELSE IF iobuf_error(dest[1]) # 0 THEN [w |-> w, dest |-> dest, n |-> -1]
  ELSE copy_loop(w, dest, (w.bufsize \div 1024) * 1024, 0)

(***************************************************************************)
(* Constructors.  The pipeline made replaces w.chain; ok is FALSE when the *)
(* C function returns NULL.                                                *)
(***************************************************************************)
iobuf_temp(w) == iobuf_alloc(w, IOBUF_OUTPUT_TEMP, w.bufsize)

\* The copy of the content into the node iobuf_alloc made (w1).
temp_with_content_copy(w1, buffer) ==
  IF w1.abort # "" THEN w1
  ELSE [w1 EXCEPT !.chain[1].d.buf = buffer, !.chain[1].d.len = Len(buffer)]

iobuf_temp_with_content(w, buffer) ==
  temp_with_content_copy(iobuf_alloc(w, IOBUF_INPUT_TEMP, Len(buffer)), buffer)

\* The file_filter_ctx_t do_open and do_iobuf_fdopen allocate.
NewFileCtx(fp, fname, print_only, keep_open) ==
  [id |-> 1, fp |-> fp, keep_open |-> keep_open, no_cache |-> FALSE,
   eof_seen |-> 0, delayed_rc |-> 0, print_only_name |-> print_only,
   peeked |-> <<>>, npeeked |-> 0, upeeked |-> 0, fname |-> fname]

\* file_filter (fcx, IOBUFCTRL_INIT, NULL, NULL, &len) returned.
do_open_inited(r) == [w |-> r.w, ok |-> TRUE]

\* a = iobuf_alloc (use, iobuf_buffer_size) returned w1; fp is the file.
do_open_alloc(w1, fp, fname, name, std) ==
  do_open_inited(
    CallFilter([w1 EXCEPT !.chain[1].real_fname = IF std THEN "" ELSE fname,
                          !.chain[1].filter = FileFilter,
                          !.chain[1].filter_ov = NewFileCtx(fp, name, std, FALSE)],
               1, IOBUFCTRL_INIT, <<>>, 0))

\* The file is open (op.fp) or not.
do_open_fp(op, fname, name, std, use) ==
  IF op.fp = GNUPG_INVALID_FD THEN [w |-> op.w, ok |-> FALSE]
  ELSE do_open_alloc(iobuf_alloc(op.w, use, op.w.bufsize), op.fp, fname, name, std)

\* fname "-" is the standard stream; opentype is "r" (rb), "w" (wb), "+" (r+b).
do_open(w, fname, special_filenames, use, opentype) ==
  LET std == special_filenames /\ fname = "-"
  IN do_open_fp(
       IF std
         THEN [w |-> w, fp |-> IF use = IOBUF_INPUT THEN FD_FOR_STDIN
                               ELSE FD_FOR_STDOUT]
       ELSE IF use = IOBUF_INPUT THEN fd_cache_open(w, fname, opentype)
       ELSE direct_open(w, fname, opentype),
       fname,
       IF std THEN (IF use = IOBUF_INPUT THEN "[stdin]" ELSE "[stdout]") ELSE fname,
       std, use)

iobuf_open(w, fname) == do_open(w, fname, TRUE, IOBUF_INPUT, "r")

iobuf_create(w, fname) == do_open(w, fname, TRUE, IOBUF_OUTPUT, "w")

iobuf_openrw(w, fname) == do_open(w, fname, FALSE, IOBUF_OUTPUT, "+")

\* The commands of iobuf_ioctl.
IOBUF_IOCTL_KEEP_OPEN == "keep_open"
IOBUF_IOCTL_INVALIDATE_CACHE == "invalidate_cache"
IOBUF_IOCTL_NO_CACHE == "no_cache"
IOBUF_IOCTL_FSYNC == "fsync"
IOBUF_IOCTL_PEEK == "peek"

\* The for loops of the keep_open and no_cache commands: the last node of
\* the chain, when it carries the file filter, takes the flag.
ioctl_set_flag(w, cmd, intval) ==
  LET n == Len(w.chain)
  IN IF n > 0 /\ w.chain[n].filter = FileFilter
       THEN [w |-> SetOv(w, n, IF cmd = IOBUF_IOCTL_KEEP_OPEN
                                 THEN [w.chain[n].filter_ov EXCEPT !.keep_open = intval # 0]
                               ELSE [w.chain[n].filter_ov EXCEPT !.no_cache = intval # 0]),
             rc |-> 0]
     ELSE [w |-> w, rc |-> -1]

\* fd_cache_invalidate or fd_cache_synchronize returned r.
ioctl_cache_done(r, cmd) ==
  [w |-> r.w, rc |-> IF cmd = IOBUF_IOCTL_INVALIDATE_CACHE /\ r.rc # 0 THEN -1
                     ELSE r.rc]

\* a is TRUE for the pipeline, FALSE for NULL; ptrval is a file name or ""
\* for NULL.
iobuf_ioctl(w, a, cmd, intval, ptrval) ==
  IF cmd = IOBUF_IOCTL_KEEP_OPEN \/ cmd = IOBUF_IOCTL_NO_CACHE
    THEN (IF a THEN ioctl_set_flag(w, cmd, intval) ELSE [w |-> w, rc |-> -1])
  ELSE IF ~a /\ intval = 0 /\ ptrval # ""
    THEN ioctl_cache_done(IF cmd = IOBUF_IOCTL_INVALIDATE_CACHE
                            THEN fd_cache_invalidate(w, ptrval)
                          ELSE fd_cache_synchronize(w, ptrval),
                          cmd)
  ELSE [w |-> w, rc |-> -1]

\* file_filter (fcx, IOBUFCTRL_PEEK, NULL, ptrval, &len) returned r.
ioctl_peek_done(r) ==
  IF r.rc = 0 THEN [w |-> r.w, rc |-> r.len, data |-> r.data]
  ELSE [w |-> r.w, rc |-> -1, data |-> <<>>]

\* iobuf_ioctl (a, IOBUF_IOCTL_PEEK, intval, ptrval) with a buffer of intval
\* bytes at ptrval: data is what the call puts in the buffer.
iobuf_ioctl_peek(w, intval) ==
  IF w.chain[1].filter = FileFilter /\ intval # 0
    THEN ioctl_peek_done(file_filter(w, 1, IOBUFCTRL_PEEK, <<>>, intval))
  ELSE [w |-> w, rc |-> -1, data |-> <<>>]

\* file_filter (fcx, IOBUFCTRL_INIT, NULL, NULL, &len) returned r; then
\* iobuf_ioctl (a, IOBUF_IOCTL_NO_CACHE, 1, NULL).
fdopen_inited(r) ==
  [w |-> iobuf_ioctl(r.w, TRUE, IOBUF_IOCTL_NO_CACHE, 1, "").w, ok |-> TRUE]

\* mode is "r" or "w"; the name is sprintf (fcx->fname, "[fd %d]", fp).
do_iobuf_fdopen(w, fp, mode, keep_open) ==
  fdopen_inited(
    CallFilter([iobuf_alloc(w, IF mode = "w" THEN IOBUF_OUTPUT ELSE IOBUF_INPUT,
                            w.bufsize)
                  EXCEPT !.chain[1].filter = FileFilter,
                         !.chain[1].filter_ov =
                           NewFileCtx(fp, "[fd " \o ToString(fp) \o "]", TRUE,
                                      keep_open)],
               1, IOBUFCTRL_INIT, <<>>, 0))

iobuf_fdopen(w, fp, mode) == do_iobuf_fdopen(w, fp, mode, FALSE)

iobuf_fdopen_nc(w, fp, mode) == do_iobuf_fdopen(w, fp, mode, TRUE)

\* The name of the file the pipeline is over, "" for NULL.
iobuf_get_real_fname(w) ==
  LET n == Len(w.chain)
  IN IF w.chain[1].real_fname # "" THEN w.chain[1].real_fname
     ELSE IF w.chain[n].filter = FileFilter
               /\ ~w.chain[n].filter_ov.print_only_name
       THEN w.chain[n].filter_ov.fname
     ELSE ""

\* As cancel_remove, but the file is removed whatever the pipeline's use.
cancel_remove_any(w) ==
  IF w.chain # <<>> /\ iobuf_get_real_fname(w) # ""
    THEN [w EXCEPT !.os = sys_remove(w.os, iobuf_get_real_fname(w))]
  ELSE w

\* if (a && a->use == IOBUF_OUTPUT) ... remove (s);
cancel_remove(w) ==
  IF w.chain # <<>> /\ w.chain[1].use = IOBUF_OUTPUT
       /\ iobuf_get_real_fname(w) # ""
    THEN [w EXCEPT !.os = sys_remove(w.os, iobuf_get_real_fname(w))]
  ELSE w

\* The loop that sends IOBUFCTRL_CANCEL to the filters, from node i on.
RECURSIVE cancel_from(_, _)
cancel_from(w, i) ==
  IF i > Len(w.chain) \/ w.abort # "" THEN w
  ELSE cancel_from(IF w.chain[i].filter # NoFilter
                     THEN CallFilter(w, i, IOBUFCTRL_CANCEL, <<>>, 0).w
                   ELSE w,
                   i + 1)

iobuf_cancel(w) == iobuf_close(cancel_from(cancel_remove(w), 1))

\* The world of a [w, rc] result.
WorldOf(r) == r.w

iobuf_set_partial_body_length_mode(w, len) ==
  IF len = 0
    THEN IF w.chain[1].filter # BlockFilter
           THEN Bug(w, "log_assert (a->filter == block_filter)")
         ELSE WorldOf(iobuf_pop_filter(w, BlockFilter, 0))
  ELSE WorldOf(iobuf_push_filter(w, BlockFilter,
         [id |-> FreshId(w), use |-> w.chain[1].use, size |-> 0, count |-> 0,
          partial |-> 1, buffer |-> <<>>, buflen |-> 0, first_c |-> len,
          eof |-> 0]))

(***************************************************************************)
(* Position, limit, line and skip operations on the head node.             *)
(***************************************************************************)
\* As iobuf_set_limit, but the fast paths stay open.
iobuf_set_limit_fast(w, nlimit) ==
  LET a == w.chain[1]
  IN SetNode(w, 1, [a EXCEPT !.nofast = FALSE, !.nlimit = nlimit,
                             !.ntotal = a.ntotal + a.nbytes, !.nbytes = 0])

iobuf_set_limit(w, nlimit) ==
  LET a == w.chain[1]
  IN SetNode(w, 1, [a EXCEPT !.nofast = nlimit # 0, !.nlimit = nlimit,
                             !.ntotal = a.ntotal + a.nbytes, !.nbytes = 0])

iobuf_tell(w) == w.chain[1].ntotal + w.chain[1].nbytes

\* As iobuf_seek, but the cursor of the discarded buffer is not reset.
iobuf_seek_cursor_kept(w, newpos) ==
  LET head == w.chain[1]
      stream == head.use = IOBUF_OUTPUT \/ head.use = IOBUF_INPUT
      k == IF stream THEN Len(w.chain) ELSE 1
      a == w.chain[k]
      sk == sys_lseek(w.os, a.filter_ov.fp, newpos)
  IN IF stream /\ (a.filter # FileFilter \/ sk.rc = -1) THEN [w |-> w, rc |-> -1]
     ELSE IF stream
       THEN [w |-> [w EXCEPT !.os = sk.os, !.chain[k].d.len = 0,
                             !.chain[k].d.buf = <<>>, !.chain[k].nbytes = 0,
                             !.chain[k].ntotal = newpos],
             rc |-> 0]
     ELSE [w |-> w, rc |-> 0]

\* for (; a->chain; a = a->chain) leaves a at the last node of the chain, and
\* the fields reset after it are that node's.
iobuf_seek(w, newpos) ==
  LET head == w.chain[1]
      stream == head.use = IOBUF_OUTPUT \/ head.use = IOBUF_INPUT
      k == IF stream THEN Len(w.chain) ELSE 1
      a == w.chain[k]
      sk == sys_lseek(w.os, a.filter_ov.fp, newpos)
      w1 == IF stream
              THEN [w EXCEPT !.os = sk.os, !.chain[k].d.len = 0, !.chain[k].d.buf = <<>>]
            ELSE w
      a1 == w1.chain[k]
  IN IF stream /\ a.filter # FileFilter THEN [w |-> w, rc |-> -1]
     ELSE IF stream /\ sk.rc = -1 THEN [w |-> w, rc |-> -1]
     ELSE [w |-> SetNode(w1, k, [a1 EXCEPT !.d.start = 0, !.nbytes = 0, !.nlimit = 0,
                                           !.nofast = FALSE, !.ntotal = newpos,
                                           !.error = 0]),
           rc |-> 0]

\* memchr (s, '\n', Len(s)): the position of the first newline in s, or 0.
NewlinePos(s) ==
  LET S == {k \in 1 .. Len(s) : s[k] = 10}
  IN IF S = {} THEN 0 ELSE CHOOSE k \in S : \A j \in S : k <= j

\* while ((c = iobuf_get (a)) != -1 && c != '\n');  The rounds that
\* iobuf_get serves from the buffer are taken together: they consume the
\* buffered bytes up to and including the first newline, or all of them.
RECURSIVE rl_skip_line(_)
rl_skip_got(g) ==
  IF g.c = -1 \/ g.c = 10 \/ g.w.abort # "" THEN g.w ELSE rl_skip_line(g.w)

rl_skip_line(w) ==
  LET a == w.chain[1]
      avail == a.d.len - a.d.start
      nl == NewlinePos(SubSeq(a.d.buf, a.d.start + 1, a.d.len))
      took == IF nl # 0 THEN nl ELSE avail
      w1 == [w EXCEPT !.chain[1].nbytes = a.nbytes + took,
                      !.chain[1].d.start = a.d.start + took]
  IN IF a.nofast \/ a.d.start >= a.d.len THEN rl_skip_got(iobuf_get(w, 1))
     ELSE IF nl # 0 THEN w1
     ELSE rl_skip_line(w1)

\* The while (1) loop of iobuf_read_line: p holds the bytes stored so far,
\* length is the buffer's size.
RECURSIVE rl_loop(_, _, _, _)
\* As rl_stored, but a line cut at maxlen is left in the pipeline.
rl_stored_noskip(w1, p1, done, length, maxlen) ==
  IF done \/ w1.abort # ""
    THEN [w |-> w1, line |-> p1, length |-> length, max_length |-> maxlen]
  ELSE IF Len(p1) = length - 1
    THEN IF length = maxlen
           THEN [w |-> w1,
                 line |-> Append(SubSeq(p1, 1, Len(p1) - 1), 10),
                 length |-> length, max_length |-> 0]
         ELSE rl_loop(w1, p1,
                      Min(length + (IF length < 1024 THEN 256 ELSE 1024), maxlen),
                      maxlen)
  ELSE rl_loop(w1, p1, length, maxlen)

\* A round stored bytes (p1 holds all so far): the line is done, or the
\* buffer is grown when full, or the line is cut at maxlen.
rl_stored(w1, p1, done, length, maxlen) ==
  IF done \/ w1.abort # ""
    THEN [w |-> w1, line |-> p1, length |-> length, max_length |-> maxlen]
  ELSE IF Len(p1) = length - 1
    THEN IF length = maxlen
           THEN [w |-> rl_skip_line(w1),
                 line |-> Append(SubSeq(p1, 1, Len(p1) - 1), 10),
                 length |-> length, max_length |-> 0]
         ELSE rl_loop(w1, p1,
                      Min(length + (IF length < 1024 THEN 256 ELSE 1024), maxlen),
                      maxlen)
  ELSE rl_loop(w1, p1, length, maxlen)

\* The slow path: iobuf_readbyte returned r.
rl_byte(r, p, length, maxlen) ==
  IF r.c = -1
    THEN [w |-> r.w, line |-> p, length |-> length, max_length |-> maxlen]
  ELSE rl_stored(r.w, Append(p, r.c), r.c = 10, length, maxlen)

rl_loop(w, p, length, maxlen) ==
  LET a == w.chain[1]
      nbytes == Len(p)
      size == Min(a.d.len - a.d.start, length - 1 - nbytes)
      seg == SubSeq(a.d.buf, a.d.start + 1, a.d.start + size)
      nl == NewlinePos(seg)
      took == IF nl # 0 THEN nl ELSE size
  IN IF ~a.nofast /\ a.d.start < a.d.len /\ nbytes < length - 1
       THEN rl_stored([w EXCEPT !.chain[1].d.start = a.d.start + took,
                                !.chain[1].nbytes = a.nbytes + took],
                      p \o Take(seg, took), nl # 0, length, maxlen)
     ELSE rl_byte(iobuf_readbyte(w, 1), p, length, maxlen)

\* iobuf_read_line with *addr_of_buffer = NULL: the buffer is allocated here.
iobuf_read_line(w, maxlen) ==
  rl_loop(w, <<>>, IF 256 <= maxlen THEN 256 ELSE maxlen, maxlen)

\* iobuf_read_line with the caller's buffer of length bytes (0: none).
iobuf_read_line_into(w, length, maxlen) ==
  IF ~(length = 0 \/ length >= 2 \/ maxlen >= 2)
    THEN [w |-> Bug(w, "Assertion failed"), line |-> <<>>, length |-> length,
          max_length |-> maxlen]
  ELSE IF length <= 1 THEN iobuf_read_line(w, maxlen)
  ELSE rl_loop(w, <<>>, length, maxlen)

\* The two loops of iobuf_skip_rest.
RECURSIVE skip_partial(_)
skip_partial_got(r) ==
  IF r.c = -1 \/ r.w.abort # "" THEN r.w ELSE skip_partial(r.w)

skip_partial(w) ==
  LET a == w.chain[1]
  IN IF a.nofast \/ a.d.start >= a.d.len THEN skip_partial_got(iobuf_readbyte(w, 1))
     ELSE skip_partial([w EXCEPT !.chain[1].nbytes = a.nbytes + (a.d.len - a.d.start),
                                 !.chain[1].d.start = a.d.len])

RECURSIVE skip_counted(_, _)
skip_counted_got(r, remaining) ==
  IF r.c = -1 \/ r.w.abort # "" THEN r.w ELSE skip_counted(r.w, remaining - 1)

skip_counted(w, remaining) ==
  LET a == w.chain[1]
      count == Min(a.d.len - a.d.start, remaining)
  IN IF remaining <= 0 THEN w
     ELSE IF a.nofast \/ a.d.start >= a.d.len
       THEN skip_counted_got(iobuf_readbyte(w, 1), remaining)
     ELSE skip_counted([w EXCEPT !.chain[1].nbytes = a.nbytes + count,
                                 !.chain[1].d.start = a.d.start + count],
                       remaining - count)

iobuf_skip_rest(w, n, partial) ==
  IF partial THEN skip_partial(w) ELSE skip_counted(w, n)

iobuf_set_buffer_size(cur, kilobyte) ==
  IF kilobyte # 0
    THEN (IF kilobyte < 4 THEN 4
          ELSE IF kilobyte > 16 * 1024 THEN 16 * 1024 ELSE kilobyte) * 1024
  ELSE cur

(***************************************************************************)
(* The state machine: one caller drives one pipeline at a time through the *)
(* API.  h is what the caller holds and has seen: the head pointer it got  *)
(* from the constructor, the operation it did last with its argument and   *)
(* result, the chain as it was before that operation, and running counts   *)
(* of the bytes delivered to it and written by it.  Where the close cache  *)
(* is driven by several pipelines, h.held is the set of handles they own,  *)
(* h.path the path of the last call and h.cc the cache before it; h.dir    *)
(* is the directory as it was before a cancel.  h.rl is what the last     *)
(* read_line with a buffer gave back and where it started, h.lim the read  *)
(* limit set last and where it was set, h.sl the string list of the caller *)
(* of common/strlist.c and h.st the status state of sm/server.c.  h.dst   *)
(* is a second pipeline the caller owns, the destination of iobuf_copy.    *)
(***************************************************************************)
\* The byte at offset k of every input file and of everything written.
Pat(k) == (k + k \div 256) % 256

PatSeq(from, n) == [j \in 1 .. n |-> Pat(from + j - 1)]

\* The world an API call starts in: the log is that call's, or, when the
\* caller keeps it (h.keep), that of all the calls so far.
W0 == [World EXCEPT !.log = IF h.keep THEN log ELSE <<>>]

Commit(w) ==
  /\ chain' = w.chain
  /\ os' = w.os
  /\ close_cache' = w.cc
  /\ number' = w.number
  /\ log' = w.log
  /\ abort' = w.abort
  /\ iobuf_buffer_size' = w.bufsize

\* The caller's record after an operation that delivers or writes no bytes.
Did(op, arg, res) ==
  [h EXCEPT !.ops = h.ops + 1, !.op = op, !.arg = arg, !.res = res,
            !.pre = chain, !.peeked = <<>>, !.peek_read = FALSE]

Ready == abort = "" /\ h.ops < h.max

\* The addresses of the nodes of a chain.
Addrs(c) == {c[k].addr : k \in 1 .. Len(c)}

HasInput == chain # <<>> /\ IsInput(chain[1])

HasOutput == chain # <<>> /\ IsOutput(chain[1])

\* The file layer at start: stdin and stdout are open, "a.in" holds size
\* bytes, "b.out" does not exist.
OsInit(size, rchunk, rfail) ==
  [fds |-> [fd \in Fds |-> IF fd = FD_FOR_STDIN \/ fd = FD_FOR_STDOUT
                             THEN [open |-> TRUE, ino |-> 0, pos |-> 0, path |-> ""]
                           ELSE ClosedFd],
   dir |-> [f \in {"a.in", "b.out"} |-> IF f = "a.in" THEN 1 ELSE 0],
   inodes |-> <<PatSeq(0, size)>>,
   nopen |-> 0, rchunk |-> rchunk, rfail |-> rfail, wfail |-> FALSE,
   seekfail |-> FALSE, cfail |-> -1]

HInit(max) ==
  [head |-> 0, ops |-> 0, max |-> max, op |-> "", arg |-> 0, res |-> 0,
   pre |-> <<>>, rpos |-> 0, rok |-> TRUE, wpos |-> 0,
   peeked |-> <<>>, peek_ok |-> TRUE, peek_read |-> FALSE,
   framed |-> FALSE, wmark |-> 0, wend |-> 0, rmark |-> -1,
   held |-> {}, cc |-> <<>>, path |-> "", dir |-> <<>>, rl |-> <<>>,
   lim |-> <<>>, sl |-> <<>>, st |-> <<>>, dst |-> <<>>, keep |-> FALSE,
   sought |-> FALSE]

InitWith(size, rchunk, rfail, kilobyte, max) ==
  /\ chain = <<>>
  /\ os = OsInit(size, rchunk, rfail)
  /\ close_cache = <<>>
  /\ number = 0
  /\ log = <<>>
  /\ abort = ""
  /\ iobuf_buffer_size = iobuf_set_buffer_size(DEFAULT_IOBUF_BUFFER_SIZE, kilobyte)
  /\ h = HInit(max)

\* A constructor returned the pipeline in w (or NULL when ~ok).
Constructed(w, ok, op) ==
  /\ Commit(w)
  /\ h' = [Did(op, 0, IF ok THEN 0 ELSE -1) EXCEPT
             !.head = IF ok /\ w.abort = "" THEN w.chain[1].addr ELSE 0,
             !.rpos = 0, !.rok = TRUE, !.wpos = 0, !.peek_ok = TRUE,
             !.framed = FALSE, !.rmark = -1]

DoOpen(fname) ==
  /\ Ready /\ chain = <<>>
  /\ \E r \in {iobuf_open(W0, fname)} : Constructed(r.w, r.ok, "open")

DoCreate(fname) ==
  /\ Ready /\ chain = <<>>
  /\ \E r \in {iobuf_create(W0, fname)} : Constructed(r.w, r.ok, "create")

DoTemp ==
  /\ Ready /\ chain = <<>>
  /\ Constructed(iobuf_temp(W0), TRUE, "temp")

DoTempWithContent(length) ==
  /\ Ready /\ chain = <<>>
  /\ Constructed(iobuf_temp_with_content(W0, PatSeq(0, length)), TRUE,
                 "temp_with_content")

DoPushIdentity ==
  /\ Ready /\ chain # <<>>
  /\ \E r \in {iobuf_push_filter(W0, IdentityFilter, [id |-> FreshId(W0)])} :
       Commit(r.w) /\ h' = Did("push", FreshId(W0), r.rc)

\* The caller pushes its filter that takes room more bytes.
DoPushShort(room) ==
  /\ Ready /\ HasOutput
  /\ \E r \in {iobuf_push_filter(W0, ShortFilter, [id |-> FreshId(W0), room |-> room,
                                                     lost |-> FALSE])} :
       Commit(r.w) /\ h' = Did("push", FreshId(W0), r.rc)

\* handle_compressed: push_compress_filter on the stream of a compressed packet.
DoPushCompress ==
  /\ Ready /\ chain # <<>> /\ chain[1].use = IOBUF_INPUT
  /\ \E algo \in {1, 2} :
       \E r \in {iobuf_push_filter2(W0, CompressFilter,
                                    NewCompressCtx(FreshId(W0), algo), FALSE)} :
         Commit(r.w) /\ h' = Did("push", FreshId(W0), r.rc)

\* On an output pipeline the caller notes how much it wrote through the
\* block filter (wmark); on an input pipeline the bytes read from now on are
\* the framed body.
DoPartialMode(len) ==
  /\ Ready /\ chain # <<>>
  /\ len = 0 => chain[1].filter = BlockFilter
  /\ Commit(iobuf_set_partial_body_length_mode(W0, len))
  /\ h' = [Did(IF len = 0 THEN "pop" ELSE "partial", len, 0) EXCEPT
             !.wmark = IF len = 0 /\ HasOutput THEN h.wpos ELSE h.wmark,
             !.framed = len # 0 /\ HasInput,
             !.rpos = IF len # 0 /\ HasInput THEN 0 ELSE h.rpos,
             !.rok = (len # 0 /\ HasInput) \/ h.rok,
             !.rmark = -1]

DoPop ==
  /\ Ready /\ Len(chain) > 1 /\ chain[1].filter # NoFilter
  /\ \E r \in {iobuf_pop_filter(W0, chain[1].filter, chain[1].filter_ov.id)} :
       Commit(r.w) /\ h' = Did("pop", 0, r.rc)

\* The caller makes the destination of a copy: an output pipeline over
\* fname, or a memory one when fname is "".
DoMakeDest(fname) ==
  /\ Ready /\ h.dst = <<>>
  /\ \E r \in {IF fname = "" THEN [w |-> iobuf_temp([W0 EXCEPT !.chain = <<>>]),
                                    ok |-> TRUE]
                ELSE iobuf_create([W0 EXCEPT !.chain = <<>>], fname)} :
       /\ Commit([r.w EXCEPT !.chain = chain])
       /\ h' = [Did("dest", 0, IF r.ok THEN 0 ELSE -1) EXCEPT
                  !.dst = IF r.ok THEN r.w.chain ELSE <<>>]

\* A write of the caller on the destination, once it has the source.
DoWriteDest(buflen) ==
  /\ Ready /\ h.dst # <<>> /\ chain # <<>>
  /\ \E r \in {iobuf_write([W0 EXCEPT !.chain = h.dst], 1, PatSeq(h.wpos, buflen))} :
       /\ Commit([r.w EXCEPT !.chain = chain])
       /\ h' = [Did("write_dest", buflen, r.rc) EXCEPT
                  !.dst = r.w.chain, !.wpos = h.wpos + buflen]

\* The caller copies once, and notes where the source was (rmark).
DoCopy ==
  /\ Ready /\ chain # <<>> /\ h.dst # <<>> /\ h.rmark = -1
  /\ \E r \in {iobuf_copy(W0, h.dst)} :
       /\ Commit(r.w)
       /\ h' = [Did("copy", 0, r.n) EXCEPT !.dst = r.dest, !.rmark = h.rpos]

\* The caller names the filter of the node at place k by its callback and,
\* when withov, by its context.
DoPopAt(k, withov) ==
  /\ Ready /\ k \in 1 .. Len(chain) /\ Len(chain) > 1
  /\ chain[1].filter # NoFilter /\ chain[k].filter # NoFilter
  /\ FindFilter(W0, chain[k].filter, IF withov THEN chain[k].filter_ov.id ELSE 0) = k
  /\ \E r \in {iobuf_pop_filter(W0, chain[k].filter,
                                  IF withov THEN chain[k].filter_ov.id ELSE 0)} :
       Commit(r.w) /\ h' = Did("pop_at", chain[k].filter_ov.id, r.rc)

DoReadByte ==
  /\ Ready /\ HasInput
  /\ \E r \in {iobuf_readbyte(W0, 1)} :
       /\ Commit(r.w)
       /\ h' = [Did("read_byte", 1, r.c) EXCEPT
                  !.rpos = IF r.c = -1 THEN h.rpos ELSE h.rpos + 1,
                  !.rok = h.rok /\ (r.c = -1 \/ r.c = Pat(h.rpos)),
                  !.rmark = IF r.c = -1 /\ h.rmark = -1 THEN h.rpos ELSE h.rmark,
                  !.peek_ok = h.op = "peek" /\ h.arg = 1 /\ h.peeked # <<>>
                                => r.c = h.peeked[1]]

DoRead(buflen) ==
  /\ Ready /\ HasInput
  /\ \E r \in {iobuf_read(W0, 1, TRUE, buflen)} :
       /\ Commit(r.w)
       /\ h' = [Did("read", buflen, r.n) EXCEPT
                  !.rpos = h.rpos + Len(r.data),
                  !.rmark = IF r.n < buflen /\ h.rmark = -1
                              THEN h.rpos + Len(r.data) ELSE h.rmark,
                  !.rok = /\ h.rok
                          /\ r.data = PatSeq(h.rpos, Len(r.data))
                          /\ Len(r.data) = IF r.n = -1 THEN 0 ELSE r.n,
                  !.peek_ok = h.op = "peek" /\ h.arg = buflen
                                => Take(r.data, Len(h.peeked)) = h.peeked,
                  !.peek_read = h.op = "peek" /\ h.arg = buflen
                                /\ h.peeked # <<>>]

DoPeek(buflen) ==
  /\ Ready /\ HasInput
  /\ \E r \in {iobuf_peek(W0, 1, buflen)} :
       /\ Commit(r.w)
       /\ h' = [Did("peek", buflen, r.n) EXCEPT !.peeked = r.data]

DoReadLine(maxlen) ==
  /\ Ready /\ HasInput
  /\ \E r \in {iobuf_read_line(W0, maxlen)} :
       Commit(r.w) /\ h' = Did("read_line", maxlen, Len(r.line))

\* The bytes the buffers of the nodes k .. Len(c) hold for their readers.
RECURSIVE Buffered(_, _)
Buffered(c, k) ==
  IF k > Len(c) THEN 0 ELSE (c[k].d.len - c[k].d.start) + Buffered(c, k + 1)

\* How far into the file behind descriptor fd the reader of the head is.
StreamPos(fd) == os.fds[fd].pos - Buffered(chain, 1)

\* The caller passes a buffer of length bytes (0: none) and keeps what it
\* gets back: the line, the buffer's length and *max_length.
DoReadLineInto(fd, length, maxlen) ==
  /\ Ready /\ HasInput
  /\ \E r \in {iobuf_read_line_into(W0, length, maxlen)} :
       /\ Commit(r.w)
       /\ h' = [Did("read_line", maxlen, Len(r.line)) EXCEPT
                  !.rl = [from |-> StreamPos(fd), buflen |-> length,
                          line |-> r.line, length |-> r.length,
                          max_length |-> r.max_length]]

\* The caller notes the limit, where the reader was and how many nodes the
\* pipeline had.
DoSetLimit(fd, nlimit) ==
  /\ Ready /\ HasInput
  /\ Commit(iobuf_set_limit(W0, nlimit))
  /\ h' = [Did("set_limit", nlimit, 0) EXCEPT
             !.lim = IF nlimit = 0 THEN <<>>
                     ELSE [n |-> nlimit, from |-> StreamPos(fd),
                           depth |-> Len(chain)]]

DoSkipRest(n, partial) ==
  /\ Ready /\ HasInput
  /\ Commit(iobuf_skip_rest(W0, n, partial))
  /\ h' = Did("skip_rest", n, 0)

DoSeek(newpos) ==
  /\ Ready /\ chain # <<>>
  /\ \E r \in {iobuf_seek(W0, newpos)} :
       Commit(r.w) /\ h' = Did("seek", newpos, r.rc)

\* As DoSeek, for a caller that reads on from the new position.
DoSeekTo(newpos) ==
  /\ Ready /\ chain # <<>>
  /\ \E r \in {iobuf_seek(W0, newpos)} :
       /\ Commit(r.w)
       /\ h' = [Did("seek", newpos, r.rc) EXCEPT
                  !.rpos = IF r.rc = 0 THEN newpos ELSE h.rpos,
                  !.sought = h.sought \/ r.rc = 0]

\* The caller looks at the first bytes of the file with the file filter's
\* Peek.
DoIoctlPeek(intval) ==
  /\ Ready /\ HasInput
  /\ \E r \in {iobuf_ioctl_peek(W0, intval)} :
       /\ Commit(r.w)
       /\ h' = [Did("ioctl_peek", intval, r.rc) EXCEPT !.peeked = r.data]

DoWriteByte ==
  /\ Ready /\ HasOutput
  /\ \E r \in {iobuf_writebyte(W0, 1, Pat(h.wpos))} :
       /\ Commit(r.w)
       /\ h' = [Did("write_byte", 1, r.rc) EXCEPT !.wpos = h.wpos + 1]

DoWrite(buflen) ==
  /\ Ready /\ HasOutput
  /\ \E r \in {iobuf_write(W0, 1, PatSeq(h.wpos, buflen))} :
       /\ Commit(r.w)
       /\ h' = [Did("write", buflen, r.rc) EXCEPT !.wpos = h.wpos + buflen]

DoOpenrw(fname) ==
  /\ Ready /\ chain = <<>>
  /\ \E r \in {iobuf_openrw(W0, fname)} : Constructed(r.w, r.ok, "openrw")

DoFdopen(fp, mode) ==
  /\ Ready /\ chain = <<>>
  /\ \E r \in {iobuf_fdopen(W0, fp, mode)} : Constructed(r.w, r.ok, "fdopen")

DoFdopenNc(fp, mode) ==
  /\ Ready /\ chain = <<>>
  /\ \E r \in {iobuf_fdopen_nc(W0, fp, mode)} : Constructed(r.w, r.ok, "fdopen_nc")

\* The caller notes the directory as it was before the call.
DoCancel ==
  /\ Ready /\ chain # <<>>
  /\ \E r \in {iobuf_cancel(W0)} :
       /\ Commit(r.w)
       /\ h' = [Did("cancel", 0, r.rc) EXCEPT !.head = 0, !.dir = os.dir]

DoClose ==
  /\ Ready /\ chain # <<>>
  /\ \E r \in {iobuf_close(W0)} :
       /\ Commit(r.w)
       /\ h' = [Did("close", 0, r.rc) EXCEPT
                  !.head = 0,
                  !.wmark = IF chain[1].filter = BlockFilter /\ HasOutput
                              THEN h.wpos ELSE h.wmark,
                  !.wend = IF HasOutput THEN h.wpos ELSE h.wend]

(***************************************************************************)
(* Reading: input pipelines over the file "a.in" or over a memory buffer,  *)
(* with identity filters pushed at any time, read by any mix of read_byte  *)
(* and read.  read() may return short counts (rchunk) and may fail at a    *)
(* file offset (rfail).                                                    *)
(***************************************************************************)
MaxReadOps == 4

ReadFileSizes == {0, 700, 2500, 5000}

ReadChunks == {1000, 65536}

ReadFails == {-1, 1500}

Kilobytes == {0, 1}

ReadSizes == {1, 700, 1024, 2048, 2500}

InitRead ==
  \E size \in ReadFileSizes, rchunk \in ReadChunks, rfail \in ReadFails,
     kilobyte \in Kilobytes :
    InitWith(size, rchunk, rfail, kilobyte, MaxReadOps)

NextRead ==
  \/ DoOpen("a.in")
  \/ \E length \in ReadFileSizes \ {0} : DoTempWithContent(length)
  \/ DoPushIdentity
  \/ DoReadByte
  \/ \E buflen \in ReadSizes : DoRead(buflen)

SpecRead == InitRead /\ [][NextRead]_vars

\* The number of bytes the bottom of the pipeline can deliver: the content
\* of the memory buffer, or the file up to the offset where read() fails.
SourceLen ==
  LET b == chain[Len(chain)]
      size == Len(os.inodes[1])
  IN IF b.use = IOBUF_INPUT_TEMP THEN Len(b.d.buf)
     ELSE IF os.rfail >= 0 THEN Min(size, os.rfail)
     ELSE size

\* The last operation was a read (a, buffer, n).
DidRead == h.op = "read" /\ abort = "" /\ chain # <<>>

\* C2: the bytes returned by any sequence of read_byte and read calls are
\* the bytes of the source, in order, none lost and none twice; a read
\* returns fewer bytes than asked for only when everything the source can
\* deliver has been delivered (end of file or a read error); and a read
\* whose last transfer went straight into the caller's buffer leaves the
\* head's internal buffer empty.
C2_ReadCorrect ==
  /\ h.rok
  /\ h.rpos <= (IF chain = <<>> THEN 0 ELSE SourceLen)
  /\ (DidRead /\ h.res < h.arg => h.rpos = SourceLen)
  /\ (DidRead /\ chain[1].e_d.used > 0 =>
        chain[1].d.len = 0 /\ chain[1].d.start = 0 /\ chain[1].d.buf = <<>>)

\* A read of at least 1024 bytes through a pushed filter, served in full by
\* a transfer into the caller's buffer, after an earlier read.
C2_Witness ==
  /\ DidRead
  /\ Len(chain) >= 2
  /\ h.arg >= IOBUF_ZEROCOPY_THRESHOLD_SIZE
  /\ h.res = h.arg
  /\ chain[1].e_d.used > 0
  /\ h.rpos > h.res

(***************************************************************************)
(* Writing: output pipelines over the file "b.out", with identity filters  *)
(* pushed at any time, written by any mix of write_byte and write, and     *)
(* closed.  Neither the filters nor write() fail.                          *)
(***************************************************************************)
MaxWriteOps == 6

WriteSizes == {700, 1024, 2500, 5000}

InitWrite ==
  \E kilobyte \in Kilobytes : InitWith(0, 65536, -1, kilobyte, MaxWriteOps)

NextWrite ==
  \/ DoCreate("b.out")
  \/ DoPushIdentity
  \/ DoWriteByte
  \/ \E buflen \in WriteSizes : DoWrite(buflen)
  \/ DoClose

SpecWrite == InitWrite /\ [][NextWrite]_vars

\* The bytes the sink "b.out" has received.
Sink == IF os.dir["b.out"] = 0 THEN <<>> ELSE os.inodes[os.dir["b.out"]]

\* The last operation closed an output pipeline.
Closed == h.op = "close" /\ abort = "" /\ h.pre # <<>> /\ h.pre[1].use = IOBUF_OUTPUT

\* The filter calls of the last operation on node k of the chain it began with.
CallsOf(k, control) ==
  {p \in 1 .. Len(log) :
     log[p].fid = h.pre[k].filter_ov.id /\ log[p].control = control}

\* The filter calls of the last operation on node k or a node above it.
CallsAbove(k) ==
  {p \in 1 .. Len(log) : \E m \in 1 .. k : log[p].fid = h.pre[m].filter_ov.id}

\* C3: the sink holds at every moment a prefix of the bytes written, in
\* write order, and after close it holds all of them; during close every
\* node's filter receives Flush before it receives Free, exactly one Free,
\* and after a node's Free no filter of that node or of a node above it is
\* called again, so every lower node is freed after all data from above
\* has arrived.
C3_WriteClose ==
  /\ Len(Sink) <= h.wpos
  /\ Sink = PatSeq(0, Len(Sink))
  /\ (Closed =>
        /\ h.res = 0
        /\ chain = <<>>
        /\ Len(Sink) = h.wpos
        /\ \A k \in 1 .. Len(h.pre) :
             /\ Cardinality(CallsOf(k, IOBUFCTRL_FREE)) = 1
             /\ \E p \in CallsOf(k, IOBUFCTRL_FLUSH) :
                  \A q \in CallsOf(k, IOBUFCTRL_FREE) :
                    p < q /\ \A r \in CallsAbove(k) : r <= q)

\* A close of a pipeline with two filters above the file, after a one-byte
\* write and a write of 2500 bytes.
C3_Witness ==
  /\ Closed
  /\ Len(h.pre) >= 3
  /\ h.wpos = 2501
  /\ Len(Sink) = 2501

(***************************************************************************)
(* Every operation: pipelines of all four kinds, driven by any sequence    *)
(* of the operations of the API.                                           *)
(***************************************************************************)
MaxAllOps == 5

AllReadSizes == {700, 2500}

AllPeekSizes == {32, 700}

AllWriteSizes == {700, 5000}

AllSeeks == {0, 300}

InitAll == InitWith(5000, 65536, -1, 1, MaxAllOps)

NextAll ==
  \/ DoOpen("a.in")
  \/ DoCreate("b.out")
  \/ DoTemp
  \/ DoTempWithContent(700)
  \/ DoPushIdentity
  \/ DoPop
  \/ DoReadByte
  \/ \E buflen \in AllReadSizes : DoRead(buflen)
  \/ \E buflen \in AllPeekSizes : DoPeek(buflen)
  \/ DoReadLine(250)
  \/ DoSkipRest(700, FALSE)
  \/ \E newpos \in AllSeeks : DoSeek(newpos)
  \/ DoWriteByte
  \/ \E buflen \in AllWriteSizes : DoWrite(buflen)
  \/ DoClose

SpecAll == InitAll /\ [][NextAll]_vars

\* C4: in every node of the pipeline the cursor is at most the length and
\* the length at most the capacity of the buffer.
C4_BufferBounds ==
  \A k \in 1 .. Len(chain) :
    /\ 0 <= chain[k].d.start
    /\ chain[k].d.start <= chain[k].d.len
    /\ chain[k].d.len <= chain[k].d.size

\* An output buffer in memory that has grown beyond its first capacity and
\* holds more bytes than that capacity.
C4_Witness ==
  /\ chain # <<>>
  /\ chain[1].use = IOBUF_OUTPUT_TEMP
  /\ chain[1].d.size > iobuf_buffer_size
  /\ chain[1].d.len > iobuf_buffer_size

(***************************************************************************)
(* Push, read one byte, pop, read the rest: the file "a.in" is opened, an  *)
(* identity filter is pushed, one byte is read, the filter is popped and   *)
(* the file is read until a read returns EOF.                              *)
(***************************************************************************)
MaxPopOps == 8

PopFileSizes == {0, 1, 2, 700, 4095, 4096, 4097, 5000}

PopReadSizes == {1, 700, 2500}

InitPop ==
  \E size \in PopFileSizes, kilobyte \in Kilobytes :
    InitWith(size, 65536, -1, kilobyte, MaxPopOps)

\* The last read returned EOF.
ReadEof == h.op = "read" /\ h.res = -1

NextPop ==
  \/ h.ops = 0 /\ DoOpen("a.in")
  \/ h.ops = 1 /\ DoPushIdentity
  \/ h.ops = 2 /\ DoReadByte
  \/ h.ops = 3 /\ DoPop
  \/ h.ops >= 4 /\ ~ReadEof /\ \E buflen \in PopReadSizes : DoRead(buflen)

SpecPop == InitPop /\ [][NextPop]_vars

\* C5: when the file has been read to EOF after the push, the read of one
\* byte and the pop, the number of bytes read is the size of the file, and
\* the caller's handle is the head throughout.
C5_AsStated ==
  /\ (chain # <<>> /\ h.head # 0 => chain[1].addr = h.head)
  /\ (h.ops >= 5 /\ ReadEof /\ abort = "" => h.rpos = Len(os.inodes[1]))

(***************************************************************************)
(* Peeking: input pipelines as in SpecRead, with peek at any time.         *)
(***************************************************************************)
MaxPeekOps == 5

PeekFileSizes == {0, 20, 700, 5000}

PeekSizes == {1, 32, 700, 4096}

PeekReadSizes == {32, 700, 4096}

InitPeek ==
  \E size \in PeekFileSizes, rfail \in ReadFails, kilobyte \in Kilobytes :
    InitWith(size, 65536, rfail, kilobyte, MaxPeekOps)

NextPeek ==
  \/ DoOpen("a.in")
  \/ DoTempWithContent(700)
  \/ DoPushIdentity
  \/ DoReadByte
  \/ \E buflen \in PeekReadSizes : DoRead(buflen)
  \/ \E buflen \in PeekSizes : DoPeek(buflen)

SpecPeek == InitPeek /\ [][NextPeek]_vars

\* The last operation was a peek that returned.
Peeked == h.op = "peek" /\ abort = ""

\* What every peek leaves as it was: the read position, the head node, and
\* the bytes still to be read, of which the bytes returned are the first.
PeekKeeps ==
  Peeked =>
    /\ iobuf_tell(World) = h.pre[1].ntotal + h.pre[1].nbytes
    /\ chain[1].addr = h.pre[1].addr
    /\ Len(h.peeked) = (IF h.res = -1 THEN 0 ELSE h.res)
    /\ h.peeked = PatSeq(h.rpos, Len(h.peeked))

\* The chain has the nodes, filters and filter contexts it had before the
\* last operation.
SameFilters ==
  /\ Len(chain) = Len(h.pre)
  /\ \A k \in 1 .. Len(chain) :
       /\ chain[k].addr = h.pre[k].addr
       /\ chain[k].filter = h.pre[k].filter
       /\ chain[k].filter_ov.id = h.pre[k].filter_ov.id

\* C6 as stated: a read of n bytes right after a peek of n bytes begins with
\* the bytes the peek returned; peek leaves tell() as it was, consumes no
\* byte, and removes or splices no filter.
C6_AsStated ==
  /\ h.peek_ok
  /\ PeekKeeps
  /\ (Peeked => SameFilters)

\* C6 amended: as C6, except that filters are freed where the peek runs into
\* EOF: the head's filter is taken off the head node, which stays the head
\* with its EOF pending, and nodes below the head may be spliced out of the
\* chain, as may nodes below the head that an earlier call left with their
\* filter freed and their EOF pending.  A peek on a chain without a pending
\* EOF during which no filter is freed leaves the chain as it was.
C6_PeekThenRead ==
  /\ h.peek_ok
  /\ PeekKeeps
  /\ (Peeked =>
        /\ Len(chain) <= Len(h.pre)
        /\ Addrs(chain) \subseteq Addrs(h.pre)
        /\ \/ /\ chain[1].filter = h.pre[1].filter
              /\ chain[1].filter_ov.id = h.pre[1].filter_ov.id
           \/ /\ chain[1].filter = NoFilter
              /\ chain[1].filter_eof
              /\ Cardinality(CallsOf(1, IOBUFCTRL_FREE)) = 1
        /\ (((\A p \in 1 .. Len(log) : log[p].control # IOBUFCTRL_FREE)
              /\ (\A k \in 1 .. Len(h.pre) : ~h.pre[k].filter_eof))
              => SameFilters))

\* A read of n bytes right after a peek of n bytes that ran into EOF below
\* a pushed filter and returned fewer bytes.
C6_Witness ==
  /\ h.op = "read"
  /\ h.peek_read
  /\ abort = ""
  /\ Len(h.pre) >= 2
  /\ h.pre[1].filter = NoFilter
  /\ h.res > 1
  /\ h.res < h.arg

(***************************************************************************)
(* tell(): input pipelines over the file "a.in", which holds one           *)
(* compressed stream, read through the decompressing filter and through    *)
(* identity filters, and output pipelines into "b.out".                    *)
(***************************************************************************)
MaxTellOps == 5

TellFileSizes == {20, 700}

TellReadSizes == {16, 40, 700}

InitTell ==
  \E size \in TellFileSizes : InitWith(size, 65536, -1, 0, MaxTellOps)

NextTell ==
  \/ DoOpen("a.in")
  \/ DoCreate("b.out")
  \/ DoPushCompress
  \/ DoPushIdentity
  \/ DoReadByte
  \/ \E n \in TellReadSizes : DoRead(n)
  \/ DoReadLine(250)
  \/ DoSkipRest(30, FALSE)
  \/ DoWriteByte
  \/ DoWrite(700)

SpecTell == InitTell /\ [][NextTell]_vars

\* The last operation was a read of an input pipeline or a write of an
\* output pipeline.
Moved ==
  /\ abort = "" /\ chain # <<>> /\ h.pre # <<>>
  /\ h.op \in {"read_byte", "read", "read_line", "skip_rest", "write_byte", "write"}

\* C7: tell() is never lower after a read of an input pipeline or a write of
\* an output pipeline than it was before it, also when the read spliced the
\* downstream node over the head.
C7_AsStated ==
  Moved => iobuf_tell(World) >= h.pre[1].ntotal + h.pre[1].nbytes

(***************************************************************************)
(* Nesting: filters are pushed up to the nesting limit on a file input,    *)
(* a file output and a memory output; near the limit a byte may be written *)
(* and the head filter popped, and while the chain is short bytes are      *)
(* read, which may splice nodes out of it.                                 *)
(***************************************************************************)
MaxNestOps == 68

NestFileSizes == {0, 20}

InitNest ==
  \E size \in NestFileSizes : InitWith(size, 65536, -1, 0, MaxNestOps)

\* The head is at most one push from the nesting limit.
NearLimit == chain # <<>> /\ chain[1].subno >= MAX_NESTING_FILTER - 1

NextNest ==
  \/ DoOpen("a.in")
  \/ DoCreate("b.out")
  \/ DoTemp
  \/ DoPushIdentity
  \/ NearLimit /\ DoPop
  \/ NearLimit /\ h.wpos = 0 /\ DoWriteByte
  \/ h.ops <= 4 /\ DoReadByte

SpecNest == InitNest /\ [][NextNest]_vars

\* The last operation was a push.
PushTried == h.op = "push" /\ abort = "" /\ h.pre # <<>>

\* What a push does at the given nesting depth of the head it is applied
\* to: below the limit it adds one node and one level, at the limit it
\* fails with GPG_ERR_BAD_DATA and leaves nodes, head filter and level.
PushAt(depth) ==
  IF depth < MAX_NESTING_FILTER
    THEN /\ h.res = 0
         /\ Len(chain) = Len(h.pre) + 1
         /\ chain[1].subno = h.pre[1].subno + 1
         /\ chain[1].filter_ov.id = h.arg
  ELSE /\ h.res = GPG_ERR_BAD_DATA
       /\ Len(chain) = Len(h.pre)
       /\ chain[1].filter = h.pre[1].filter
       /\ chain[1].filter_ov = h.pre[1].filter_ov
       /\ chain[1].subno = h.pre[1].subno

\* C8 as stated: the nesting depth is the number of filters stacked on the
\* bottom one, which is the head's subnumber; a push at depth 63 and below
\* succeeds, a push at depth 64 fails with GPG_ERR_BAD_DATA and leaves the
\* chain as it was.
C8_AsStated ==
  /\ chain # <<>> /\ abort = "" => chain[1].subno = Len(chain) - 1
  /\ PushTried => PushAt(Len(h.pre) - 1)

\* C8 amended: the nesting depth is the head's subnumber, which is at least
\* the number of filters stacked on the bottom one; a push at depth 63 and
\* below succeeds, a push at depth 64 fails with GPG_ERR_BAD_DATA and
\* leaves the chain as it was.
C8_NestingLimit ==
  /\ chain # <<>> /\ abort = "" => chain[1].subno >= Len(chain) - 1
  /\ chain # <<>> => chain[1].subno <= MAX_NESTING_FILTER
  /\ PushTried => PushAt(h.pre[1].subno)

\* A push at depth 64 has failed; the 64 pushes before it, the last of them
\* at depth 63, succeeded.
C8_Witness ==
  /\ PushTried
  /\ h.pre[1].subno = MAX_NESTING_FILTER
  /\ Len(h.pre) = MAX_NESTING_FILTER + 1
  /\ h.res = GPG_ERR_BAD_DATA
  /\ \A k \in 1 .. MAX_NESTING_FILTER : h.pre[k].filter = IdentityFilter

(***************************************************************************)
(* Partial body length framing: a body is written to "b.out" through the   *)
(* block filter in partial mode, in any division into writes; the filter   *)
(* is ended by close, or popped and a trailing byte written before close.  *)
(* The file is then opened, its first octet read and given to the          *)
(* read-side block filter, and the body read back.                         *)
(***************************************************************************)
MaxBlockOps == 12

BlockWriteSizes == {100, 300, 700, 2500}

BlockReadSizes == {700, 4096}

InitBlock ==
  \E kilobyte \in Kilobytes : InitWith(0, 65536, -1, kilobyte, MaxBlockOps)

\* The head of an output pipeline is the block filter.
Framing == HasOutput /\ chain[1].filter = BlockFilter

NextBlock ==
  \/ h.ops = 0 /\ DoCreate("b.out")
  \/ h.op = "create" /\ DoPartialMode(1)
  \/ Framing /\ h.ops < 5 /\ DoWriteByte
  \/ Framing /\ h.ops < 5 /\ \E n \in BlockWriteSizes : DoWrite(n)
  \/ Framing /\ h.wpos > 0 /\ DoPartialMode(0)
  \/ HasOutput /\ h.op = "pop" /\ DoWriteByte
  \/ HasOutput /\ h.wpos > 0 /\ DoClose
  \/ h.op = "close" /\ h.wend > 0 /\ DoOpen("b.out")
  \/ h.op = "open" /\ DoReadByte
  \/ h.op = "read_byte" /\ ~h.framed /\ h.res > 0 /\ DoPartialMode(h.res)
  \/ h.framed /\ DoReadByte
  \/ h.framed /\ \E n \in BlockReadSizes : DoRead(n)

SpecBlock == InitBlock /\ [][NextBlock]_vars

\* The last read reported the end of the data: -1, or fewer bytes than
\* asked for.
EndSeen ==
  \/ h.op = "read" /\ h.res < h.arg
  \/ h.op = "read_byte" /\ h.res = -1

\* What the reader of the framed body has seen is right: the bytes are the
\* bytes written, in order; the end of the data is reported first at the end
\* of the body and then at the end of the file, and what is read between
\* the two is what was written after the body.
ReadBack ==
  /\ h.rok
  /\ h.rpos <= h.wend
  /\ h.rmark = -1 => h.rpos <= h.wmark
  /\ h.rmark # -1 => h.rmark = h.wmark
  /\ EndSeen => h.rpos \in {h.wmark, h.wend}
  /\ chain # <<>> => chain[1].error = 0

\* C9: a non-empty body written in any division into write and write_byte
\* calls through the block filter in partial mode and ended by close or pop
\* is read back through the read-side block filter exactly, followed by EOF,
\* and nothing beyond the framing is taken from the file; neither side
\* aborts.
C9_RoundTrip ==
  /\ abort = ""
  /\ h.framed => ReadBack

\* A body of several partial chunks and a last chunk with a two octet
\* length, followed in the file by another byte, was read back to the end of
\* the file.
C9_Witness ==
  /\ h.framed /\ abort = ""
  /\ h.wmark > OP_MIN_PARTIAL_CHUNK
  /\ h.wmark % OP_MIN_PARTIAL_CHUNK >= 192
  /\ h.rmark = h.wmark
  /\ h.wend > h.wmark
  /\ h.rpos = h.wend
  /\ h.op = "read_byte" /\ h.res = -1

(***************************************************************************)
(* Partial body length segments: 2560 bytes and less are written through   *)
(* the block filter in partial mode into a memory output and into the file *)
(* "b.out", and the filter is popped.                                      *)
(***************************************************************************)
MaxSegmentOps == 7

SegmentWriteSizes == {512, 2048, 2560}

InitSegment ==
  \E kilobyte \in Kilobytes : InitWith(0, 65536, -1, kilobyte, MaxSegmentOps)

NextSegment ==
  \/ h.ops = 0 /\ DoTemp
  \/ h.ops = 0 /\ DoCreate("b.out")
  \/ h.ops = 1 /\ DoPartialMode(1)
  \/ Framing /\ h.ops < 5 /\ DoWriteByte
  \/ Framing /\ h.ops < 5 /\ \E n \in SegmentWriteSizes : DoWrite(n)
  \/ Framing /\ DoPartialMode(0)
  \/ h.op = "pop" /\ DoClose

SpecSegment == InitSegment /\ [][NextSegment]_vars

\* The bytes a memory output holds.
Emitted == SubSeq(chain[1].d.buf, 1, chain[1].d.len)

\* A partial segment: the header octet for 2^c data bytes and the bytes
\* written from offset from on.
Segment(c, from) == <<224 + c>> \o PatSeq(from, Pow2(c))

\* The block filter was popped off a memory output after 2560 bytes were
\* written through it.
Popped2560 ==
  /\ h.op = "pop" /\ abort = "" /\ chain # <<>>
  /\ chain[1].use = IOBUF_OUTPUT_TEMP
  /\ h.wpos = 2560

\* C10: 2560 bytes written through the block filter into a memory output
\* are emitted, when the filter is closed, as five segments of header octet
\* 0xE9 and 512 data bytes, followed by the final header octet 0x00.
C10_AsStated ==
  Popped2560 =>
    Emitted = Segment(9, 0) \o Segment(9, 512) \o Segment(9, 1024)
                \o Segment(9, 1536) \o Segment(9, 2048) \o <<0>>

(***************************************************************************)
(* Flush calls to the write side of the block filter: partial body length  *)
(* mode on a file output, writes of sizes that leave a remainder stashed,  *)
(* filters pushed above the block filter (a push flushes the head), close. *)
(***************************************************************************)
MaxStashOps == 6

StashWriteSizes == {100, 500, 1024}

InitStash ==
  \E kilobyte \in Kilobytes : InitWith(0, 65536, -1, kilobyte, MaxStashOps)

\* An output pipeline with the block filter on one of its nodes.
Stashing ==
  /\ HasOutput
  /\ \E k \in 1 .. Len(chain) : chain[k].filter = BlockFilter

NextStash ==
  \/ h.ops = 0 /\ DoCreate("b.out")
  \/ h.op = "create" /\ DoPartialMode(1)
  \/ Stashing /\ DoWriteByte
  \/ Stashing /\ \E n \in StashWriteSizes : DoWrite(n)
  \/ Stashing /\ DoPushIdentity
  \/ Stashing /\ h.wpos > 0 /\ DoClose

SpecStash == InitStash /\ [][NextStash]_vars

\* The body a framed octet string carries: partial segments of header
\* octet 0xE0|k and 2^k bytes, then one final segment with a one or two
\* octet length.  ok says the string is framed that way to its end.
RECURSIVE Deframe(_)
Deframe(s) ==
  IF s = <<>> THEN [ok |-> FALSE, data |-> <<>>]
  ELSE IF s[1] >= 224 /\ s[1] < 255
    THEN IF s[1] - 224 < OP_MIN_PARTIAL_CHUNK_2POW \/ Len(s) < 1 + Pow2(s[1] - 224)
           THEN [ok |-> FALSE, data |-> <<>>]
         ELSE With(Deframe(Drop(s, 1 + Pow2(s[1] - 224))), LAMBDA r :
                [ok |-> r.ok, data |-> SubSeq(s, 2, 1 + Pow2(s[1] - 224)) \o r.data])
  ELSE IF s[1] < 192
    THEN [ok |-> Len(s) = 1 + s[1], data |-> Drop(s, 1)]
  ELSE IF s[1] < 224 /\ Len(s) >= 2
    THEN [ok |-> Len(s) = 2 + (s[1] - 192) * 256 + s[2] + 192, data |-> Drop(s, 2)]
  ELSE [ok |-> FALSE, data |-> <<>>]

\* The pipeline was closed after bytes were written through the block filter.
StashClosed == h.op = "close" /\ h.wend > 0

\* C11: whatever the sizes of the Flush calls that reach the write side of
\* the block filter, also when a call arrives while a remainder of 1..511
\* bytes is stashed, no assertion of the filter fails, and what the filter
\* has emitted when the pipeline is closed is partial segments of header
\* octet 0xE0|k, 9 <= k <= 30, with 2^k bytes each and a final segment,
\* carrying the bytes written.
C11_AsStated ==
  /\ abort = ""
  /\ StashClosed =>
       /\ Deframe(Sink).ok
       /\ Deframe(Sink).data = PatSeq(0, h.wend)

(***************************************************************************)
(* The read side of the block filter over files that hold a framed body:  *)
(* partial segments, then a final segment with a one, two or five octet   *)
(* length, then a few octets that follow the body.  The caller reads the  *)
(* first length octet and hands it to partial body length mode.           *)
(***************************************************************************)
MaxDecodeOps == 7

\* The exponents of the partial segments a body starts with.
DecodeParts == {<<>>, <<9>>, <<10, 9>>, <<13>>}

\* The final segment: the octets its length header has, and its length.
DecodeFinals == {<<1, 0>>, <<1, 100>>, <<2, 700>>, <<5, 300>>, <<5, 0>>}

DecodeReadSizes == {100, 700, 4096}

DecodeTrailer == 3

\* The length header of a final segment of len bytes in octets octets.
FinalHeader(octets, len) ==
  IF octets = 1 THEN <<len>>
  ELSE IF octets = 2 THEN <<192 + ((len - 192) \div 256), (len - 192) % 256>>
  ELSE <<255, 0, 0, len \div 256, len % 256>>

\* The framed body: its bytes are the pattern bytes from offset from on.
RECURSIVE Framed(_, _, _)
Framed(parts, fin, from) ==
  IF parts = <<>> THEN FinalHeader(fin[1], fin[2]) \o PatSeq(from, fin[2])
  ELSE <<224 + Head(parts)>> \o PatSeq(from, Pow2(Head(parts)))
         \o Framed(Tail(parts), fin, from + Pow2(Head(parts)))

\* The length of the body a framed octet string starts with, by the rules
\* for the length headers.
RECURSIVE BodyLen(_)
BodyLen(s) ==
  IF s[1] < 192 THEN s[1]
  ELSE IF s[1] < 224 THEN (s[1] - 192) * 256 + s[2] + 192
  ELSE IF s[1] = 255 THEN ((s[2] * 256 + s[3]) * 256 + s[4]) * 256 + s[5]
  ELSE Pow2(s[1] % 32) + BodyLen(Drop(s, 1 + Pow2(s[1] % 32)))

InitDecode ==
  \E parts \in DecodeParts, fin \in DecodeFinals, rchunk \in ReadChunks,
     kilobyte \in Kilobytes :
    /\ chain = <<>>
    /\ os = [OsInit(0, rchunk, -1) EXCEPT
               !.inodes = <<Framed(parts, fin, 0)
                              \o PatSeq(BodyLen(Framed(parts, fin, 0)),
                                        DecodeTrailer)>>]
    /\ close_cache = <<>>
    /\ number = 0
    /\ log = <<>>
    /\ abort = ""
    /\ iobuf_buffer_size = iobuf_set_buffer_size(DEFAULT_IOBUF_BUFFER_SIZE, kilobyte)
    /\ h = HInit(MaxDecodeOps)

NextDecode ==
  \/ h.ops = 0 /\ DoOpen("a.in")
  \/ h.op = "open" /\ DoReadByte
  \/ h.ops = 2 /\ h.res > 0 /\ DoPartialMode(h.res)
  \/ h.framed /\ DoReadByte
  \/ h.framed /\ \E n \in DecodeReadSizes : DoRead(n)

SpecDecode == InitDecode /\ [][NextDecode]_vars

\* The body the file "a.in" holds.
FileBody == BodyLen(os.inodes[1])

\* C12: the read side of the block filter decodes the length headers as
\* stated (one octet below 192, two octets, five octets with 255, partial
\* segments of 2^(L & 0x1F) bytes after which the filter reads the next
\* header itself): the reader gets the bytes of the body in order, the end
\* of the data is reported exactly at the end of the final segment, at once
\* if that segment is empty, and no error is recorded.
C12_Decode ==
  /\ abort = ""
  /\ h.framed =>
       /\ h.rok
       /\ h.rmark = -1 => h.rpos <= FileBody
       /\ h.rmark # -1 => h.rmark = FileBody
       /\ EndSeen => h.rpos \in {FileBody, FileBody + DecodeTrailer}
       /\ chain # <<>> => chain[1].error = 0

\* A body of a 1024 byte and a 512 byte partial segment and a final segment
\* of 300 bytes with a five octet length was read to its end.
C12_Witness ==
  /\ h.framed /\ abort = ""
  /\ os.inodes[1][1] = 234
  /\ FileBody = 1836
  /\ h.rmark = FileBody
  /\ h.rpos = FileBody
  /\ EndSeen

(***************************************************************************)
(* The read side of the block filter over files that end inside a framed  *)
(* body: before a length octet that is due, or inside a segment.          *)
(***************************************************************************)
MaxTruncOps == 7

TruncParts == {<<>>, <<9>>}

TruncFinals == {<<1, 0>>, <<1, 100>>, <<2, 700>>, <<5, 300>>}

\* Where the file ends: the octets of the framed body it still holds.
TruncCuts == {1, 2, 4, 300, 513, 514, 517, 900}

TruncReadSizes == {100, 700, 4096}

InitTrunc ==
  \E parts \in TruncParts, fin \in TruncFinals, cut \in TruncCuts,
     rchunk \in ReadChunks :
    /\ cut < Len(Framed(parts, fin, 0))
    /\ chain = <<>>
    /\ os = [OsInit(0, rchunk, -1) EXCEPT
               !.inodes = <<Take(Framed(parts, fin, 0), cut)>>]
    /\ close_cache = <<>>
    /\ number = 0
    /\ log = <<>>
    /\ abort = ""
    /\ iobuf_buffer_size = DEFAULT_IOBUF_BUFFER_SIZE
    /\ h = HInit(MaxTruncOps)

NextTrunc ==
  \/ h.ops = 0 /\ DoOpen("a.in")
  \/ h.op = "open" /\ DoReadByte
  \/ h.ops = 2 /\ h.res > 0 /\ DoPartialMode(h.res)
  \/ h.framed /\ DoReadByte
  \/ h.framed /\ \E n \in TruncReadSizes : DoRead(n)

SpecTrunc == InitTrunc /\ [][NextTrunc]_vars

\* The head still carries the block filter and has seen no EOF.
NoEofSeen ==
  /\ chain[1].filter = BlockFilter
  /\ ~chain[1].filter_eof
  /\ \A p \in 1 .. Len(log) :
       log[p].control = IOBUFCTRL_FREE => log[p].fid # chain[1].filter_ov.id

\* C13: where the downstream ends before a length octet that is due or
\* inside a segment, the block filter's Underflow returns the bad data
\* error, never EOF and never bytes that are not there: when the reader
\* runs into the end the head holds the bad data error, which stays, the
\* filter has not been taken for ended, and the bytes delivered are bytes
\* of the body.
C13_BadData ==
  /\ abort = ""
  /\ h.framed =>
       /\ h.rok
       /\ h.rpos < Len(os.inodes[1])
       /\ NoEofSeen
       /\ chain[1].error \in {0, GPG_ERR_BAD_DATA}
       /\ EndSeen => chain[1].error = GPG_ERR_BAD_DATA
       /\ h.pre[1].error # 0 => chain[1].error = h.pre[1].error

\* A file that ends inside the second segment of a body was read until no
\* byte came any more, after the bytes of the first segment were delivered.
C13_Witness ==
  /\ h.framed /\ abort = ""
  /\ os.inodes[1][1] = 233
  /\ Len(os.inodes[1]) = 900
  /\ h.rpos = 512
  /\ EndSeen
  /\ chain[1].error = GPG_ERR_BAD_DATA

(***************************************************************************)
(* The close cache under the calls several pipelines make on it.  h.held  *)
(* is the set of file handles the open pipelines own, each with the path  *)
(* it was opened for; h.cc is the cache as it was before the last call.   *)
(* A pipeline gets its handle from do_open (fd_cache_open for reading,    *)
(* direct_open for writing) and gives it up once, in its file filter's    *)
(* Free (fd_cache_close, with the path or, for no_cache, without).        *)
(* lseek may fail for the whole run (os.seekfail).                        *)
(***************************************************************************)
MaxCacheOps == 6

CachePaths == {"a.in", "b.out"}

InitCache ==
  \E seekfail \in BOOLEAN :
    /\ chain = <<>>
    /\ os = [OsInit(3, DEFAULT_IOBUF_BUFFER_SIZE, -1) EXCEPT !.seekfail = seekfail]
    /\ close_cache = <<>>
    /\ number = 0
    /\ log = <<>>
    /\ abort = ""
    /\ iobuf_buffer_size = DEFAULT_IOBUF_BUFFER_SIZE
    /\ h = HInit(MaxCacheOps)

\* A call on the cache for fname returned rc: fp is the handle a pipeline
\* got, or GNUPG_INVALID_FD; gone is the set of handles given up.
CacheDid(w, op, rc, fname, fp, gone) ==
  /\ Commit(w)
  /\ h' = [Did(op, 0, rc) EXCEPT
             !.cc = close_cache, !.path = fname,
             !.held = (h.held \ gone) \cup
                      (IF fp = GNUPG_INVALID_FD THEN {}
                       ELSE {[fname |-> fname, fp |-> fp]})]

\* do_open of an input pipeline.
DoCacheOpen(fname) ==
  /\ Ready
  /\ \E r \in {fd_cache_open(W0, fname, "r")} :
       CacheDid(r.w, "fd_cache_open", r.fp, fname, r.fp, {})

\* do_open of an output pipeline: iobuf_create ("w") or iobuf_openrw ("+").
DoDirectOpen(fname, mode) ==
  /\ Ready
  /\ \E r \in {direct_open(W0, fname, mode)} :
       CacheDid(r.w, "direct_open", r.fp, fname, r.fp, {})

\* The file filter's Free of a pipeline that owns the handle x.
DoCacheClose(x, no_cache) ==
  /\ Ready /\ x \in h.held
  /\ CacheDid(fd_cache_close(W0, IF no_cache THEN "" ELSE x.fname, x.fp),
              "fd_cache_close", 0, x.fname, GNUPG_INVALID_FD, {x})

DoInvalidate(fname) ==
  /\ Ready
  /\ \E r \in {iobuf_ioctl(W0, FALSE, IOBUF_IOCTL_INVALIDATE_CACHE, 0, fname)} :
       CacheDid(r.w, "invalidate", r.rc, fname, GNUPG_INVALID_FD, {})

DoSynchronize(fname) ==
  /\ Ready
  /\ \E r \in {iobuf_ioctl(W0, FALSE, IOBUF_IOCTL_FSYNC, 0, fname)} :
       CacheDid(r.w, "fsync", r.rc, fname, GNUPG_INVALID_FD, {})

NextCache ==
  \/ \E fname \in CachePaths : DoCacheOpen(fname)
  \/ \E fname \in CachePaths, mode \in {"w", "+"} : DoDirectOpen(fname, mode)
  \/ \E x \in h.held, no_cache \in BOOLEAN : DoCacheClose(x, no_cache)
  \/ \E fname \in CachePaths : DoInvalidate(fname)
  \/ \E fname \in CachePaths : DoSynchronize(fname)

SpecCache == InitCache /\ [][NextCache]_vars

\* The live slots of the cache.
Live == {k \in 1 .. Len(close_cache) : close_cache[k].fp # GNUPG_INVALID_FD}

\* The slots the cache had before the last call are still there, each
\* with its path; new slots are put in front of them.
SlotsKept ==
  /\ Len(close_cache) >= Len(h.cc)
  /\ \A k \in 1 .. Len(h.cc) :
       close_cache[k + Len(close_cache) - Len(h.cc)].fname = h.cc[k].fname

\* C14: after any sequence of close-via-cache, open-via-cache, invalidate
\* and synchronize calls made by pipelines, no two live slots of the close
\* cache hold the same handle (so each pair of path and handle is in at
\* most one live slot), every slot is free (invalid handle) or live with
\* a handle that is open on the slot's path and that no pipeline owns,
\* and every slot keeps its path.
C14_CacheSlots ==
  /\ abort = ""
  /\ \A j \in Live, k \in Live : close_cache[j].fp = close_cache[k].fp => j = k
  /\ \A k \in Live :
       /\ close_cache[k].fp \in Fds
       /\ os.fds[close_cache[k].fp].open
       /\ os.fds[close_cache[k].fp].path = close_cache[k].fname
       /\ \A x \in h.held : x.fp # close_cache[k].fp
  /\ SlotsKept

\* Two live slots for one path with different handles, the second one made
\* by the last call, while a pipeline owns a third handle for the path.
C14_Witness ==
  /\ \E j \in Live, k \in Live :
       /\ j # k
       /\ close_cache[j].fname = close_cache[k].fname
       /\ \E x \in h.held : x.fname = close_cache[k].fname
  /\ h.op = "fd_cache_close"
  /\ Len(close_cache) > Len(h.cc)

(***************************************************************************)
(* Opening a file again: input pipelines over "a.in" are opened, read by   *)
(* any mix of read_byte and read, and closed, one after the other.  The    *)
(* closes may use the cache; read() and lseek() do not fail.               *)
(***************************************************************************)
MaxReopenOps == 7

ReopenFileSizes == {0, 700, 5000}

ReopenReadSizes == {700, 2500}

InitReopen ==
  \E size \in ReopenFileSizes, rchunk \in ReadChunks, kilobyte \in Kilobytes :
    InitWith(size, rchunk, -1, kilobyte, MaxReopenOps)

NextReopen ==
  \/ DoOpen("a.in")
  \/ DoReadByte
  \/ \E buflen \in ReopenReadSizes : DoRead(buflen)
  \/ DoClose

SpecReopen == InitReopen /\ [][NextReopen]_vars

\* The handle of the pipeline's file filter.
HeadFp == chain[Len(chain)].filter_ov.fp

\* C15: after open_read of a real path, reads and a close that may use the
\* cache, the next open_read of the path takes the handle from the cache:
\* open() of the file layer is called once in the whole run, the open
\* succeeds and leaves no live slot for the path, the handle is at offset
\* 0, and the reads on the new pipeline deliver the file from its first
\* byte to its last.
C15_Reopen ==
  /\ abort = ""
  /\ os.nopen <= 1
  /\ h.rok
  /\ h.op = "open" =>
       /\ h.res = 0 /\ chain # <<>>
       /\ os.nopen = 1
       /\ os.fds[HeadFp].open /\ os.fds[HeadFp].pos = 0
       /\ LiveSlot(close_cache, "a.in") = 0
  /\ h.op = "close" => LiveSlot(close_cache, "a.in") # 0
  /\ DidRead /\ h.res < h.arg => h.rpos = Len(os.inodes[1])

\* The second pipeline on a file of 5000 bytes, whose handle the first
\* pipeline had read from and closed into the cache, has delivered the
\* first 2500 bytes.
C15_Witness ==
  /\ h.ops = 5 /\ DidRead
  /\ Len(os.inodes[1]) = 5000
  /\ Len(close_cache) = 1
  /\ os.nopen = 1
  /\ h.rpos = 2500

(***************************************************************************)
(* Opening a file again whose handle cannot be rewound: as above, but      *)
(* lseek() may fail for the whole run (os.seekfail), as it does on a FIFO. *)
(***************************************************************************)
MaxRewindOps == 6

RewindFileSizes == {0, 700, 5000}

RewindReadSizes == {700, 2500}

InitRewind ==
  \E size \in RewindFileSizes, kilobyte \in Kilobytes, seekfail \in BOOLEAN :
    /\ chain = <<>>
    /\ os = [OsInit(size, DEFAULT_IOBUF_BUFFER_SIZE, -1) EXCEPT !.seekfail = seekfail]
    /\ close_cache = <<>>
    /\ number = 0
    /\ log = <<>>
    /\ abort = ""
    /\ iobuf_buffer_size = iobuf_set_buffer_size(DEFAULT_IOBUF_BUFFER_SIZE, kilobyte)
    /\ h = HInit(MaxRewindOps)

NextRewind ==
  \/ DoOpen("a.in")
  \/ DoReadByte
  \/ \E buflen \in RewindReadSizes : DoRead(buflen)
  \/ DoClose

SpecRewind == InitRewind /\ [][NextRewind]_vars

\* C16 as stated: when the handle of the live slot cannot be rewound, the
\* slot is made free and the open falls back to open() on the path, so
\* open_read returns a pipeline whenever the file layer has a descriptor
\* left for the path.
C16_AsStated ==
  /\ abort = ""
  /\ h.op = "open" =>
       /\ LiveSlot(close_cache, "a.in") = 0
       /\ FreeFds(os) # {} => h.res = 0 /\ chain # <<>>

(***************************************************************************)
(* Opening for writing a path that has handles in the close cache: the     *)
(* calls several pipelines make on the cache, as above, where close() may  *)
(* report an error for one descriptor (os.cfail).                          *)
(***************************************************************************)
MaxInvalidateOps == 6

CloseFails == {-1, 2, 3}

InitInvalidate ==
  \E cfail \in CloseFails :
    /\ chain = <<>>
    /\ os = [OsInit(3, DEFAULT_IOBUF_BUFFER_SIZE, -1) EXCEPT !.cfail = cfail]
    /\ close_cache = <<>>
    /\ number = 0
    /\ log = <<>>
    /\ abort = ""
    /\ iobuf_buffer_size = DEFAULT_IOBUF_BUFFER_SIZE
    /\ h = HInit(MaxInvalidateOps)

NextInvalidate ==
  \/ \E fname \in CachePaths : DoCacheOpen(fname)
  \/ \E fname \in CachePaths, mode \in {"w", "+"} : DoDirectOpen(fname, mode)
  \/ \E x \in h.held : DoCacheClose(x, FALSE)

SpecInvalidate == InitInvalidate /\ [][NextInvalidate]_vars

\* The last call was an open for writing.
OpenedForWriting == h.op = "direct_open"

\* The cache held, before the last call, a live slot for the call's path
\* whose handle close() reports an error for.
CloseFailed ==
  \E k \in 1 .. Len(h.cc) :
    /\ h.cc[k].fname = h.path
    /\ h.cc[k].fp # GNUPG_INVALID_FD
    /\ h.cc[k].fp = os.cfail

\* C17 as stated: an open for writing first closes and frees every live
\* slot of the path, so no live slot of the path is left when the new
\* handle is opened, and when the close of a cached handle fails the open
\* fails and open() is not called.
C17_AsStated ==
  /\ abort = ""
  /\ OpenedForWriting =>
       /\ LiveSlot(close_cache, h.path) = 0
       /\ \A k \in 1 .. Len(h.cc) :
            (h.cc[k].fname = h.path /\ h.cc[k].fp # GNUPG_INVALID_FD) =>
              (~os.fds[h.cc[k].fp].open \/ h.cc[k].fp = h.res)
       /\ CloseFailed => h.res = GNUPG_INVALID_FD

(***************************************************************************)
(* Cancelling: pipelines of every kind (over "a.in" and "b.out", over the  *)
(* standard streams, over an attached descriptor, over memory) are read    *)
(* or written, get identity filters pushed, and are closed or cancelled.   *)
(***************************************************************************)
MaxCancelOps == 5

CancelSizes == {100, 5000}

InitCancel ==
  \E kilobyte \in Kilobytes :
    InitWith(700, DEFAULT_IOBUF_BUFFER_SIZE, -1, kilobyte, MaxCancelOps)

NextCancel ==
  \/ \E fname \in {"a.in", "-"} : DoOpen(fname)
  \/ \E fname \in {"b.out", "-"} : DoCreate(fname)
  \/ DoOpenrw("a.in")
  \/ DoFdopen(FD_FOR_STDOUT, "w")
  \/ DoTemp
  \/ DoPushIdentity
  \/ DoReadByte
  \/ DoWriteByte
  \/ \E buflen \in CancelSizes : DoWrite(buflen)
  \/ DoClose
  \/ DoCancel

SpecCancel == InitCancel /\ [][NextCancel]_vars

\* The last node of the chain c.
Bottom(c) == c[Len(c)]

\* The chain c is an output pipeline that was made over a path of the
\* file system: do_open's descriptor is neither a standard stream nor one
\* the caller attached.
OutputOverPath(c) ==
  /\ Bottom(c).use = IOBUF_OUTPUT
  /\ Bottom(c).filter = FileFilter
  /\ ~Bottom(c).filter_ov.print_only_name

\* C18: after cancel on an output pipeline made over a real path, whatever
\* was written and pushed, the path does not exist any more; and cancel
\* changes the directory in no other way: it removes no file for an input
\* pipeline, a pipeline over standard input or output, over an attached
\* descriptor or over memory.
C18_CancelRemoves ==
  /\ abort = ""
  /\ h.op = "cancel" =>
       /\ OutputOverPath(h.pre) => os.dir[Bottom(h.pre).filter_ov.fname] = 0
       /\ \A f \in DOMAIN os.dir :
            os.dir[f] # h.dir[f] =>
              OutputOverPath(h.pre) /\ f = Bottom(h.pre).filter_ov.fname

\* A pipeline made by create_write over "b.out", with a filter pushed and
\* 5000 bytes written, was cancelled: the file that was there is gone.
C18_Witness ==
  /\ h.op = "cancel" /\ abort = ""
  /\ Len(h.pre) = 2
  /\ OutputOverPath(h.pre)
  /\ h.wpos = 5000
  /\ h.dir["b.out"] # 0
  /\ os.dir["b.out"] = 0
  /\ os.dir["a.in"] # 0

\* The nodes of the chain c that carry a filter, head first.
Filtered(c) == SelectSeq(c, LAMBDA a : a.filter # NoFilter)

\* C19 as stated: cancel on an output pipeline sends Cancel to every
\* filter from head to tail and then closes without flushing: after the
\* Cancel calls no filter gets a Flush that carries bytes, so what the
\* nodes had buffered does not reach the sink.
C19_AsStated ==
  /\ abort = ""
  /\ (h.op = "cancel" /\ h.pre[1].use = IOBUF_OUTPUT) =>
       /\ Len(log) >= Len(Filtered(h.pre))
       /\ \A p \in 1 .. Len(Filtered(h.pre)) :
            /\ log[p].control = IOBUFCTRL_CANCEL
            /\ log[p].fid = Filtered(h.pre)[p].filter_ov.id
       /\ \A p \in 1 .. Len(log) :
            log[p].control = IOBUFCTRL_FLUSH => log[p].n = 0

(***************************************************************************)
(* Closing after write errors: output pipelines over "b.out" with identity *)
(* filters pushed are written and closed, where write() may fail for the   *)
(* whole run (os.wfail), as it does on a full disk.                        *)
(***************************************************************************)
MaxCloseOps == 5

CloseWriteSizes == {700, 5000}

InitClose ==
  \E kilobyte \in Kilobytes, wfail \in BOOLEAN :
    /\ chain = <<>>
    /\ os = [OsInit(0, DEFAULT_IOBUF_BUFFER_SIZE, -1) EXCEPT !.wfail = wfail]
    /\ close_cache = <<>>
    /\ number = 0
    /\ log = <<>>
    /\ abort = ""
    /\ iobuf_buffer_size = iobuf_set_buffer_size(DEFAULT_IOBUF_BUFFER_SIZE, kilobyte)
    /\ h = HInit(MaxCloseOps)

NextClose ==
  \/ DoCreate("b.out")
  \/ DoPushIdentity
  \/ DoWriteByte
  \/ \E buflen \in CloseWriteSizes : DoWrite(buflen)
  \/ DoClose

SpecClose == InitClose /\ [][NextClose]_vars

\* During the last call the file filter got a Flush with bytes while
\* write() fails: that Flush returned an error.
FlushFailed ==
  /\ os.wfail
  /\ \E p \in 1 .. Len(log) :
       /\ log[p].fid = Bottom(h.pre).filter_ov.id
       /\ log[p].control = IOBUFCTRL_FLUSH
       /\ log[p].n > 0

\* C20 as stated: close returns the first error met while the nodes are
\* flushed and freed from head to tail, and 0 only when every Flush and
\* every Free succeeded: a close during which a Flush failed does not
\* return 0, whatever the nodes below the failing one return.
C20_AsStated ==
  /\ abort = ""
  /\ (h.op = "close" /\ FlushFailed) => h.res # 0

(***************************************************************************)
(* Reading a source that fails: input pipelines over "a.in", whose read()  *)
(* fails with EIO at the offset os.rfail after it delivered the bytes      *)
(* before it, with identity filters pushed at any time.                    *)
(***************************************************************************)
MaxFailOps == 5

FailFileSizes == {700, 5000}

FailOffsets == {50, 1500}

FailReadSizes == {100, 700, 2500}

InitFail ==
  \E size \in FailFileSizes, rchunk \in ReadChunks, rfail \in FailOffsets,
     kilobyte \in Kilobytes :
    /\ rfail < size
    /\ InitWith(size, rchunk, rfail, kilobyte, MaxFailOps)

NextFail ==
  \/ DoOpen("a.in")
  \/ DoPushIdentity
  \/ DoReadByte
  \/ \E buflen \in FailReadSizes : DoRead(buflen)

SpecFail == InitFail /\ [][NextFail]_vars

\* The last operation was a read or a read_byte that returned -1.
ReadFailed == h.op \in {"read", "read_byte"} /\ h.res = -1

\* C21: a read that asks for more than the source delivers before it fails
\* returns the bytes delivered and no error; the failure is reported (-1,
\* with the head's error set) only when every byte read before it has
\* been delivered, and from then on no read delivers anything.
C21_ErrorAfterDrain ==
  /\ abort = ""
  /\ h.rok
  /\ h.rpos <= os.rfail
  /\ DidRead => h.res # 0
  /\ (DidRead /\ h.res < h.arg) => h.rpos = os.rfail
  /\ h.rmark # -1 => h.rpos = h.rmark /\ h.rpos = os.rfail
  /\ ReadFailed => chain[1].error = GPG_ERR_EIO

\* The source failed at offset 50: a read of 100 bytes returned the 50
\* bytes, and the read after it returned -1 with the error on the head.
C21_Witness ==
  /\ h.ops = 3 /\ ReadFailed /\ h.op = "read"
  /\ os.rfail = 50
  /\ h.rpos = 50 /\ h.rmark = 50
  /\ h.pre[1].d.len = 0
  /\ chain[1].error = GPG_ERR_EIO

(***************************************************************************)
(* Seeking: pipelines over "a.in", over "b.out" and over memory, with      *)
(* identity filters pushed, are read or written and then sought.           *)
(***************************************************************************)
MaxSeekOps == 5

SeekFileSizes == {700, 5000}

SeekSizes == {100, 700}

SeekPositions == {0, 100}

InitSeek ==
  \E size \in SeekFileSizes, kilobyte \in Kilobytes :
    InitWith(size, DEFAULT_IOBUF_BUFFER_SIZE, -1, kilobyte, MaxSeekOps)

NextSeek ==
  \/ DoOpen("a.in")
  \/ DoCreate("b.out")
  \/ DoTemp
  \/ DoTempWithContent(700)
  \/ DoPushIdentity
  \/ DoReadByte
  \/ \E buflen \in SeekSizes : DoRead(buflen)
  \/ DoWriteByte
  \/ \E buflen \in SeekSizes : DoWrite(buflen)
  \/ \E newpos \in SeekPositions : DoSeek(newpos)

SpecSeek == InitSeek /\ [][NextSeek]_vars

\* The last operation was a seek on a pipeline whose head was a stream
\* (not a memory buffer), and it returned 0.
SoughtStream ==
  /\ h.op = "seek" /\ h.res = 0
  /\ h.pre[1].use \in {IOBUF_INPUT, IOBUF_OUTPUT}

\* C22 as stated: after a successful seek (p) on an input or output
\* stream, whatever filters were pushed, the chain is the bottom file
\* filter alone, the head's buffer is empty, its read limit and its error
\* are cleared, and tell() on the head is p.
C22_AsStated ==
  /\ abort = ""
  /\ SoughtStream =>
       /\ Len(chain) = 1
       /\ chain[1].filter = FileFilter
       /\ chain[1].d.len = 0 /\ chain[1].d.start = 0
       /\ chain[1].nlimit = 0
       /\ chain[1].error = 0
       /\ iobuf_tell(World) = h.arg

\* The last operation was a seek on a pipeline that is a memory buffer.
SoughtTemp ==
  /\ h.op = "seek"
  /\ h.pre[1].use \in {IOBUF_INPUT_TEMP, IOBUF_OUTPUT_TEMP}

\* C23 as stated: a seek on a memory pipeline ends the process as a
\* programmer error: it does not return, so it neither reports success
\* nor changes the pipeline's cursor and counters.
C23_AsStated == SoughtTemp => abort # ""

(***************************************************************************)
(* Attached descriptors that are to stay open: the caller has opened       *)
(* "a.in" itself (descriptor AttachedFd) and attaches input pipelines to   *)
(* it with iobuf_fdopen_nc, which are read, get identity filters pushed,   *)
(* and are closed or cancelled.                                            *)
(***************************************************************************)
MaxAttachOps == 5

AttachFileSizes == {0, 700}

AttachReadSizes == {100, 700}

\* The descriptor open() gives the caller: the lowest one that is free.
AttachedFd == sys_open(OsInit(0, DEFAULT_IOBUF_BUFFER_SIZE, -1), "a.in", "r").fd

InitAttach ==
  \E size \in AttachFileSizes, kilobyte \in Kilobytes :
    /\ chain = <<>>
    /\ os = sys_open(OsInit(size, DEFAULT_IOBUF_BUFFER_SIZE, -1), "a.in", "r").os
    /\ close_cache = <<>>
    /\ number = 0
    /\ log = <<>>
    /\ abort = ""
    /\ iobuf_buffer_size = iobuf_set_buffer_size(DEFAULT_IOBUF_BUFFER_SIZE, kilobyte)
    /\ h = HInit(MaxAttachOps)

NextAttach ==
  \/ DoFdopenNc(AttachedFd, "r")
  \/ DoPushIdentity
  \/ DoReadByte
  \/ \E buflen \in AttachReadSizes : DoRead(buflen)
  \/ DoClose
  \/ DoCancel

SpecAttach == InitAttach /\ [][NextAttach]_vars

\* C24 as stated: a pipeline attached to a descriptor with keep_open set
\* never closes it: whenever the file filter was told to free itself (at
\* close, at cancel, at the end of file) the descriptor is still open and
\* is in no slot of the close cache.
C24_AsStated ==
  /\ abort = ""
  /\ os.fds[AttachedFd].open
  /\ \A k \in 1 .. Len(close_cache) : close_cache[k].fp # AttachedFd

(***************************************************************************)
(* Update pipelines: "a.in" is opened with iobuf_openrw, written and       *)
(* closed, and opened for reading before or after that.                    *)
(***************************************************************************)
MaxUpdateOps == 6

UpdateFileSizes == {100, 700}

UpdateSizes == {100, 700}

InitUpdate ==
  \E size \in UpdateFileSizes, kilobyte \in Kilobytes :
    InitWith(size, DEFAULT_IOBUF_BUFFER_SIZE, -1, kilobyte, MaxUpdateOps)

NextUpdate ==
  \/ DoOpenrw("a.in")
  \/ DoOpen("a.in")
  \/ DoWriteByte
  \/ \E n \in UpdateSizes : DoWrite(n)
  \/ DoReadByte
  \/ \E buflen \in UpdateSizes : DoRead(buflen)
  \/ DoClose

SpecUpdate == InitUpdate /\ [][NextUpdate]_vars

\* The last call closed a pipeline that iobuf_openrw had made.
ClosedUpdate ==
  h.op = "close" /\ h.pre # <<>> /\ OutputOverPath(h.pre)

\* C25 as stated: when a pipeline made by openrw is closed its handle is
\* really closed and is in no slot of the close cache.
C25_AsStated ==
  ClosedUpdate =>
    /\ ~os.fds[Bottom(h.pre).filter_ov.fp].open
    /\ \A k \in 1 .. Len(close_cache) :
         close_cache[k].fp # Bottom(h.pre).filter_ov.fp

(***************************************************************************)
(* Lines: "a.in" holds the pattern, whose newlines are at the offsets 10,  *)
(* 265 and 520, and is read through a pipeline (with identity filters      *)
(* pushed at any time) by any mix of read_byte, read and read_line, the     *)
(* last with or without a buffer of the caller.                            *)
(***************************************************************************)
MaxLineOps == 4

LineFileSizes == {11, 15, 700}

LineChunks == {100, 65536}

LineBufferLengths == {0, 2, 12}

LineMaxLengths == {2, 5, 12, 13, 256, 300}

LineReadSizes == {10}

\* The descriptor the first open of "a.in" gets.
LineFd == sys_open(OsInit(0, DEFAULT_IOBUF_BUFFER_SIZE, -1), "a.in", "r").fd

InitLine ==
  \E size \in LineFileSizes, rchunk \in LineChunks :
    InitWith(size, rchunk, -1, 0, MaxLineOps)

NextLine ==
  \/ DoOpen("a.in")
  \/ DoPushIdentity
  \/ DoReadByte
  \/ \E buflen \in LineReadSizes : DoRead(buflen)
  \/ \E length \in LineBufferLengths, maxlen \in LineMaxLengths :
       length <= maxlen /\ DoReadLineInto(LineFd, length, maxlen)

SpecLine == InitLine /\ [][NextLine]_vars

\* What the file holds from the offset the last read_line started at.
LineRest == Drop(os.inodes[1], h.rl.from)

\* The line the last read_line was to read: up to and including the
\* newline, or up to the end of the file.
LineWanted ==
  IF NewlinePos(LineRest) # 0 THEN Take(LineRest, NewlinePos(LineRest))
  ELSE LineRest

\* The line's bytes before its newline, a newline and the NUL have room in
\* h.arg bytes.
LineFits ==
  (IF NewlinePos(LineRest) # 0 THEN NewlinePos(LineRest) - 1 ELSE Len(LineRest))
    + 2 <= h.arg

DidReadLine == h.op = "read_line" /\ h.rl # <<>>

\* C26: read_line with *max >= 2 and a buffer that is absent or no longer
\* than *max: the buffer does not grow beyond *max, the line and its NUL
\* have room in it, and the whole line is consumed from the pipeline.  A
\* line that fits is stored as it is and *max is kept; one that does not
\* fit is cut to *max - 2 bytes and a newline, and *max is set to 0.
C26_ReadLine ==
  /\ abort = ""
  /\ DidReadLine =>
       /\ h.rl.length <= h.arg
       /\ h.rl.length >= h.rl.buflen
       /\ h.res = Len(h.rl.line)
       /\ h.res + 1 <= h.rl.length
       /\ StreamPos(LineFd) = h.rl.from + Len(LineWanted)
       /\ LineFits =>
            h.rl.line = LineWanted /\ h.rl.max_length = h.arg
       /\ ~LineFits =>
            /\ h.rl.line = Append(Take(LineWanted, h.arg - 2), 10)
            /\ h.rl.max_length = 0

\* The second line of the file, 255 bytes with its newline, was read into
\* a buffer of 12 bytes with *max = 13: the buffer grew to 13 bytes, the
\* line was cut to 11 bytes and a newline, and the reader is at the third
\* line.
C26_Witness ==
  /\ DidReadLine
  /\ h.rl.from = 11 /\ h.rl.buflen = 12 /\ h.arg = 13
  /\ ~LineFits
  /\ h.rl.length = 13 /\ h.res = 12 /\ h.rl.max_length = 0
  /\ h.rl.line = Append(PatSeq(11, 11), 10)
  /\ StreamPos(LineFd) = 266

(***************************************************************************)
(* Read limits: "a.in" is read through a pipeline, with identity filters   *)
(* pushed before a limit is set, by any mix of read_byte, read, read_line  *)
(* and skip_rest; the limit is set, set anew or cleared at any time.       *)
(***************************************************************************)
MaxLimitOps == 5

LimitFileSizes == {15, 700}

LimitChunks == {100, 65536}

Limits == {0, 5, 20, 40}

LimitReadSizes == {10, 30}

LimitSkips == {30}

LimitFd == sys_open(OsInit(0, DEFAULT_IOBUF_BUFFER_SIZE, -1), "a.in", "r").fd

InitLimit ==
  \E size \in LimitFileSizes, rchunk \in LimitChunks :
    InitWith(size, rchunk, -1, 0, MaxLimitOps)

NextLimit ==
  \/ DoOpen("a.in")
  \/ h.lim = <<>> /\ DoPushIdentity
  \/ \E nlimit \in Limits : DoSetLimit(LimitFd, nlimit)
  \/ DoReadByte
  \/ \E buflen \in LimitReadSizes : DoRead(buflen)
  \/ DoReadLineInto(LimitFd, 0, 256)
  \/ \E n \in LimitSkips, partial \in BOOLEAN : DoSkipRest(n, partial)

SpecLimit == InitLimit /\ [][NextLimit]_vars

\* The bytes the callers took from the head since the limit was set.
TakenSinceLimit == StreamPos(LimitFd) - h.lim.from

IsSpace(c) == c = " "

\* strpbrk (s, delim): the place of the first character of s that is in
\* delim, 0 for NULL.
strpbrk(s, delim) ==
  LET S == {k \in 1 .. Len(s) : s[k] \in delim}
  IN IF S = {} THEN 0 ELSE CHOOSE k \in S : \A j \in S : k <= j

\* trim_spaces of common/stringhelp.c: the string without its leading and
\* trailing white space.
trim_spaces(str) ==
  LET S == {k \in 1 .. Len(str) : ~IsSpace(str[k])}
  IN IF S = {} THEN <<>>
     ELSE SubSeq(str, CHOOSE k \in S : \A j \in S : k <= j,
                      CHOOSE k \in S : \A j \in S : k >= j)

add_to_strlist(list, string) == <<[d |-> string, flags |-> 0]>> \o list

\* As do_append_to_strlist, but the item is put at the front.
do_append_to_strlist_front(list, string, stringlen) ==
  <<[d |-> Take(string, stringlen), flags |-> 0]>> \o list

\* The item is linked behind the last one.
do_append_to_strlist(list, string, stringlen) ==
  Append(list, [d |-> Take(string, stringlen), flags |-> 0])

append_to_strlist_try(list, string) ==
  do_append_to_strlist(list, string, Len(string))

append_to_strlist(list, string) == append_to_strlist_try(list, string)

\* strlist_prev (head, node) for the node at place k: the place before it,
\* 0 for NULL.
strlist_prev(head, k) == k - 1

\* The do loop of tokenize_to_strlist: s is the rest of the string.
RECURSIVE tokenize_loop(_, _, _)
\* while (se && (s = se + 1))
tokenize_next(s, se, delim, newlist) ==
  IF se # 0 THEN tokenize_loop(Drop(s, se), delim, newlist) ELSE newlist

\* tail, the item just appended, was trimmed: an empty one is unlinked.
tokenize_trimmed(s, se, delim, appended) ==
  LET tail == Len(appended)
      d == trim_spaces(appended[tail].d)
  IN IF d = <<>>
       THEN tokenize_next(s, se, delim,
                          IF strlist_prev(appended, tail) # 0
                            THEN SubSeq(appended, 1, strlist_prev(appended, tail))
                          ELSE <<>>)
     ELSE tokenize_next(s, se, delim, [appended EXCEPT ![tail].d = d])

tokenize_loop(s, delim, newlist) ==
  LET se == strpbrk(s, delim)
      n == IF se # 0 THEN se - 1 ELSE Len(s)
  IN IF n = 0 THEN tokenize_next(s, se, delim, newlist)
     ELSE tokenize_trimmed(s, se, delim, do_append_to_strlist(newlist, s, n))

\* The list afterwards, the new items (<<>> for NULL) and errno.
tokenize_to_strlist(list, string, delim) ==
  LET newlist == tokenize_loop(string, delim, <<>>)
  IN IF newlist = <<>>
       THEN [list |-> list, newlist |-> <<>>, errno |-> "ENOENT"]
     ELSE [list |-> list \o newlist, newlist |-> newlist, errno |-> ""]

\* The for loop of strlist_copy at the item k of list.  last points to the
\* variable newlist or to the variable sl; the item made in a round is
\* linked to the new list only when *last = sl stores into newlist.
RECURSIVE strlist_copy_loop(_, _, _, _)
strlist_copy_loop(list, k, newlist, last) ==
  IF k > Len(list) THEN newlist
  ELSE strlist_copy_loop(list, k + 1,
                         IF last = "newlist"
                           THEN <<[d |-> list[k].d, flags |-> list[k].flags]>>
                         ELSE newlist,
                         "sl")

strlist_copy(list) == strlist_copy_loop(list, 1, <<>>, "newlist")

(***************************************************************************)
(* A caller of the string list: it adds strings at either end, sets the    *)
(* flags of the item it added, tokenizes strings made of pieces joined by  *)
(* a delimiter, and copies the list.                                       *)
(***************************************************************************)
MaxStrlistOps == 3

MaxPieces == 2

Pieces ==
  {<<>>, <<" ">>, <<"a">>, <<" ", "a">>, <<"a", " ", "b">>, <<"a", ";", "b">>}

AddedStrings == {<<"a">>, <<"b", "c">>}

Delimiters == {",", ";"}

StrlistFlags == {1, 2}

\* The pieces with the character delim between them.
RECURSIVE Join(_, _)
Join(pieces, delim) ==
  IF pieces = <<>> THEN <<>>
  ELSE IF Len(pieces) = 1 THEN pieces[1]
  ELSE pieces[1] \o <<delim>> \o Join(Tail(pieces), delim)

PieceLists == UNION {[1 .. n -> Pieces] : n \in 0 .. MaxPieces}

InitStrlist ==
  /\ chain = <<>>
  /\ os = OsInit(0, DEFAULT_IOBUF_BUFFER_SIZE, -1)
  /\ close_cache = <<>>
  /\ number = 0
  /\ log = <<>>
  /\ abort = ""
  /\ iobuf_buffer_size = DEFAULT_IOBUF_BUFFER_SIZE
  /\ h = [HInit(MaxStrlistOps) EXCEPT
            !.sl = [list |-> <<>>, before |-> <<>>, pieces |-> <<>>,
                    ret |-> <<>>, errno |-> ""]]

\* The caller's record after a call on the list.
StrlistDid(op, list, pieces, ret, errno) ==
  /\ Ready
  /\ h' = [Did(op, 0, 0) EXCEPT
             !.sl = [list |-> list, before |-> h.sl.list, pieces |-> pieces,
                     ret |-> ret, errno |-> errno]]
  /\ UNCHANGED <<chain, os, close_cache, number, log, abort, iobuf_buffer_size>>

DoAddToStrlist(string) ==
  StrlistDid("add_to_strlist", add_to_strlist(h.sl.list, string), <<>>, <<>>, "")

DoAppendToStrlist(string) ==
  StrlistDid("append_to_strlist", append_to_strlist(h.sl.list, string), <<>>,
             <<>>, "")

\* sl->flags = flags on the item the last call returned.
DoSetFlags(flags) ==
  /\ h.op \in {"add_to_strlist", "append_to_strlist"}
  /\ StrlistDid("flags",
                [h.sl.list EXCEPT ![IF h.op = "add_to_strlist" THEN 1
                                    ELSE Len(h.sl.list)].flags = flags],
                <<>>, <<>>, "")

\* Both delimiters are given to tokenize; the pieces are joined by one.
DoTokenize(pieces, delim) ==
  \E r \in {tokenize_to_strlist(h.sl.list, Join(pieces, delim), Delimiters)} :
    StrlistDid("tokenize", r.list, pieces, r.newlist, r.errno)

DoStrlistCopy ==
  StrlistDid("strlist_copy", h.sl.list, <<>>, strlist_copy(h.sl.list), "")

NextStrlist ==
  \/ \E string \in AddedStrings : DoAddToStrlist(string)
  \/ \E string \in AddedStrings : DoAppendToStrlist(string)
  \/ \E flags \in StrlistFlags : DoSetFlags(flags)
  \/ \E pieces \in PieceLists, delim \in Delimiters : DoTokenize(pieces, delim)
  \/ DoStrlistCopy

SpecStrlist == InitStrlist /\ [][NextStrlist]_vars

\* The strings of the items of a list.
Strings(list) == [k \in 1 .. Len(list) |-> list[k].d]

\* No piece holds a delimiter and none is empty after trimming.
PlainPieces ==
  \A k \in 1 .. Len(h.sl.pieces) :
    /\ strpbrk(h.sl.pieces[k], Delimiters) = 0
    /\ trim_spaces(h.sl.pieces[k]) # <<>>

\* The string tokenized last held no token.
NoTokens ==
  \A k \in 1 .. Len(h.sl.pieces) :
    \A j \in 1 .. Len(h.sl.pieces[k]) :
      IsSpace(h.sl.pieces[k][j]) \/ h.sl.pieces[k][j] \in Delimiters

\* A string without tokens gives NULL with ENOENT and leaves the list.
NoTokensSentinel ==
  (h.op = "tokenize" /\ NoTokens) =>
    h.sl.ret = <<>> /\ h.sl.errno = "ENOENT" /\ h.sl.list = h.sl.before

\* C28 as stated: the tokens of the joined pieces are the pieces.
C28_AsStated ==
  /\ (h.op = "tokenize" /\ PlainPieces) => Strings(h.sl.ret) = h.sl.pieces
  /\ NoTokensSentinel

\* C28: when no piece holds a delimiter and none is empty after trimming,
\* the tokens of the joined pieces are the trimmed pieces in their order,
\* appended to the list with flags 0; a string without tokens gives NULL
\* with ENOENT and leaves the list unchanged.
C28_RoundTrip ==
  /\ (h.op = "tokenize" /\ PlainPieces) =>
       /\ Strings(h.sl.ret) =
            [k \in 1 .. Len(h.sl.pieces) |-> trim_spaces(h.sl.pieces[k])]
       /\ \A k \in 1 .. Len(h.sl.ret) : h.sl.ret[k].flags = 0
       /\ h.sl.list = h.sl.before \o h.sl.ret
       /\ h.sl.errno = IF h.sl.pieces = <<>> THEN "ENOENT" ELSE ""
  /\ NoTokensSentinel

\* Two pieces, one with a leading blank and one with a blank inside, were
\* joined by a delimiter and tokenized onto a list of one item.
C28_Witness ==
  /\ h.op = "tokenize" /\ PlainPieces
  /\ h.sl.pieces = << <<" ", "a">>, <<"a", " ", "b">> >>
  /\ Strings(h.sl.ret) = << <<"a">>, <<"a", " ", "b">> >>
  /\ Len(h.sl.before) = 1 /\ Len(h.sl.list) = 3

\* C29 as stated: strlist_copy returns a list with the strings and flags
\* of the items of the list in their order and leaves the list unchanged.
C29_AsStated ==
  h.op = "strlist_copy" =>
    h.sl.ret = h.sl.before /\ h.sl.list = h.sl.before

(***************************************************************************)
(* Status lines (sm/server.c).  sv holds the control's no_server and       *)
(* status_fd, the module's statusfp ("" for NULL) and any_failure_printed, *)
(* and out, the lines written so far: the stream, the status and its       *)
(* arguments.  The arguments used hold no line feed or carriage return, so *)
(* they are written as they are.                                           *)
(***************************************************************************)
STATUS_FAILURE == "FAILURE"
STATUS_ERROR == "ERROR"

gpgsm_init_statusfp(sv) ==
  IF sv.statusfp # "" \/ sv.status_fd = -1 THEN sv
  ELSE [sv EXCEPT !.statusfp = IF sv.status_fd = 1 THEN "stdout"
                               ELSE IF sv.status_fd = 2 THEN "stderr"
                               ELSE "fd"]

\* The line is written to the status stream that is open in sv.
status2_write(sv, no, args) ==
  [sv EXCEPT !.out = Append(sv.out, [fp |-> sv.statusfp, no |-> no, args |-> args]),
             !.any_failure_printed = (no = STATUS_FAILURE) \/ sv.any_failure_printed]

gpgsm_status2(sv, no, args) ==
  IF sv.no_server /\ sv.status_fd = -1 THEN sv
  ELSE IF sv.no_server /\ no = STATUS_FAILURE /\ sv.any_failure_printed THEN sv
  ELSE IF sv.no_server THEN status2_write(gpgsm_init_statusfp(sv), no, args)
  ELSE [sv EXCEPT !.out = Append(sv.out, [fp |-> "assuan", no |-> no, args |-> args])]

\* text "" stands for NULL, which ends the argument list.
gpgsm_status(sv, no, text) ==
  gpgsm_status2(sv, no, IF text = "" THEN <<>> ELSE <<text>>)

gpgsm_status_with_err_code(sv, no, text, ec) ==
  gpgsm_status2(sv, no, IF text = "" THEN <<ToString(ec)>>
                        ELSE <<text, ToString(ec)>>)

gpgsm_exit_failure_status(sv) ==
  IF sv.any_failure_printed THEN sv
  ELSE [sv EXCEPT !.out = Append(sv.out,
                                 [fp |-> IF sv.statusfp # "" THEN sv.statusfp
                                         ELSE "stderr",
                                  no |-> STATUS_FAILURE,
                                  args |-> <<"gpgsm-exit", "50331649">>])]

(***************************************************************************)
(* A gpgsm run, as server or not, with or without a status descriptor:     *)
(* status lines are emitted and the failure report of the exit is called,  *)
(* in any order.                                                           *)
(***************************************************************************)
MaxStatusOps == 4

StatusFds == {-1, 1, 2, 3}

StatusCodes == {STATUS_FAILURE, STATUS_ERROR}

StatusTexts == {"", "import"}

StatusErrCodes == {9}

InitStatus ==
  \E no_server \in BOOLEAN, status_fd \in StatusFds :
    /\ chain = <<>>
    /\ os = OsInit(0, DEFAULT_IOBUF_BUFFER_SIZE, -1)
    /\ close_cache = <<>>
    /\ number = 0
    /\ log = <<>>
    /\ abort = ""
    /\ iobuf_buffer_size = DEFAULT_IOBUF_BUFFER_SIZE
    /\ h = [HInit(MaxStatusOps) EXCEPT
              !.st = [no_server |-> no_server, status_fd |-> status_fd,
                      statusfp |-> "", any_failure_printed |-> FALSE,
                      out |-> <<>>]]

StatusDid(op, sv) ==
  /\ Ready
  /\ h' = [Did(op, 0, 0) EXCEPT !.st = sv]
  /\ UNCHANGED <<chain, os, close_cache, number, log, abort, iobuf_buffer_size>>

DoStatus2(no, text) ==
  StatusDid("gpgsm_status2", gpgsm_status2(h.st, no, <<text, "x">>))

DoStatus(no, text) == StatusDid("gpgsm_status", gpgsm_status(h.st, no, text))

DoStatusWithErrCode(no, text, ec) ==
  StatusDid("gpgsm_status_with_err_code",
            gpgsm_status_with_err_code(h.st, no, text, ec))

DoExitFailureStatus ==
  StatusDid("gpgsm_exit_failure_status", gpgsm_exit_failure_status(h.st))

NextStatus ==
  \/ \E no \in StatusCodes : DoStatus2(no, "import")
  \/ \E no \in StatusCodes, text \in StatusTexts : DoStatus(no, text)
  \/ \E no \in StatusCodes, text \in StatusTexts, ec \in StatusErrCodes :
       DoStatusWithErrCode(no, text, ec)
  \/ DoExitFailureStatus

SpecStatus == InitStatus /\ [][NextStatus]_vars

\* The FAILURE lines written so far.
FailureLines == {k \in 1 .. Len(h.st.out) : h.st.out[k].no = STATUS_FAILURE}

\* C30 as stated: when gpgsm does not run as a server, at most one FAILURE
\* status line is written, whatever the order of the status emissions and
\* of the calls of the failure report of the exit.
C30_AsStated == h.st.no_server => Cardinality(FailureLines) <= 1

(***************************************************************************)
(* Popping a filter by callback and context: pipelines over "a.in" and     *)
(* "b.out" with identity filters pushed; the filter of any node is popped, *)
(* named by its callback alone when it is the first with that callback.    *)
(***************************************************************************)
MaxPopAtOps == 5

PopAtSizes == {100, 5000}

InitPopAt ==
  \E size \in PopAtSizes, kilobyte \in Kilobytes :
    InitWith(size, DEFAULT_IOBUF_BUFFER_SIZE, -1, kilobyte, MaxPopAtOps)

NextPopAt ==
  \/ DoOpen("a.in")
  \/ DoCreate("b.out")
  \/ DoPushIdentity
  \/ DoReadByte
  \/ \E buflen \in PopAtSizes : DoWrite(buflen)
  \/ \E k \in 1 .. MaxPopAtOps, withov \in BOOLEAN : DoPopAt(k, withov)

SpecPopAt == InitPopAt /\ [][NextPopAt]_vars

\* The contexts of the filters of a chain, from the head on.
FilterIds(c) == [k \in 1 .. Len(Filtered(c)) |-> Filtered(c)[k].filter_ov.id]

\* The calls of the log that went to the filter with context id.
CallsTo(id) == SelectSeq(log, LAMBDA e : e.fid = id)

\* C31 as stated: pop removes the first filter that matches callback and
\* context wherever it sits in the chain: the process goes on, the filter
\* was told to free itself exactly once, on an output pipeline after a
\* Flush, and the other filters are left in their order.
C31_AsStated ==
  h.op = "pop_at" =>
    /\ abort = ""
    /\ h.res = 0 =>
         /\ FilterIds(chain) = SelectSeq(FilterIds(h.pre), LAMBDA id : id # h.arg)
         /\ Len(SelectSeq(CallsTo(h.arg), LAMBDA e : e.control = IOBUFCTRL_FREE)) = 1
         /\ IsOutput(h.pre[1]) => CallsTo(h.arg)[1].control = IOBUFCTRL_FLUSH

(***************************************************************************)
(* Copying: a source over "a.in" or over a memory buffer, with identity    *)
(* filters pushed and some bytes read, is copied to a destination over     *)
(* "b.out" or in memory.  read() may fail at an offset of the file and     *)
(* write() may fail; the caller may have written to the destination.       *)
(***************************************************************************)
MaxCopyOps == 5

CopyFileSizes == {700, 5000}

CopyFailOffsets == {-1, 50, 4500}

CopyWriteSizes == {2000}

InitCopy ==
  \E size \in CopyFileSizes, rfail \in CopyFailOffsets, wfail \in BOOLEAN :
    /\ rfail < size
    /\ chain = <<>>
    /\ os = [OsInit(size, DEFAULT_IOBUF_BUFFER_SIZE, rfail) EXCEPT !.wfail = wfail]
    /\ close_cache = <<>>
    /\ number = 0
    /\ log = <<>>
    /\ abort = ""
    /\ iobuf_buffer_size = iobuf_set_buffer_size(DEFAULT_IOBUF_BUFFER_SIZE, 1)
    /\ h = HInit(MaxCopyOps)

NextCopy ==
  \/ DoOpen("a.in")
  \/ DoTempWithContent(700)
  \/ DoPushIdentity
  \/ DoReadByte
  \/ DoMakeDest("b.out")
  \/ DoMakeDest("")
  \/ \E buflen \in CopyWriteSizes : DoWriteDest(buflen)
  \/ DoCopy

SpecCopy == InitCopy /\ [][NextCopy]_vars

\* The bytes the source holds in all.
SourceSize ==
  IF Bottom(chain).use = IOBUF_INPUT_TEMP THEN Bottom(chain).d.len
  ELSE Len(os.inodes[1])

\* What reached the destination: the file and what the node still buffers.
DestBytes ==
  (IF Bottom(h.dst).use = IOBUF_OUTPUT_TEMP \/ os.dir["b.out"] = 0 THEN <<>>
   ELSE os.inodes[os.dir["b.out"]]) \o Take(h.dst[1].d.buf, h.dst[1].d.len)

\* Nothing fails in this run.
NoFailure == ~os.wfail /\ (os.rfail = -1 \/ Bottom(chain).use = IOBUF_INPUT_TEMP)

\* C32 as stated: iobuf_copy takes any input source and any output
\* destination, in memory or not; when nothing fails every byte the source
\* had left is in the destination, in order, behind what was written to it
\* before, and their number is returned.
C32_AsStated ==
  h.op = "copy" =>
    /\ abort = ""
    /\ NoFailure =>
         /\ h.res = SourceSize - h.rpos
         /\ DestBytes = PatSeq(0, h.wpos) \o PatSeq(h.rpos, SourceSize - h.rpos)

\* The copy met an error: on the destination before or during the copy,
\* or on the source.
CopyError == iobuf_error(h.dst[1]) # 0 \/ iobuf_error(chain[1]) # 0

\* C33 as stated: iobuf_copy returns (size_t)(-1) whenever it met an error
\* and a count only when the source was copied to its end.
C33_AsStated ==
  (h.op = "copy" /\ abort = "") =>
    /\ CopyError => h.res = -1
    /\ h.res # -1 => h.res = SourceSize - h.rpos

(***************************************************************************)
(* The end of a filter's data in front of the data of the node below it:  *)
(* the framed bodies of SpecDecode are followed by DecodeTrailer octets   *)
(* of the file, which the reader gets from the file filter once the block *)
(* filter is gone.                                                        *)
(***************************************************************************)
\* The last operation was a read that reported the end of the data.
EofReturned == h.op \in {"read", "read_byte"} /\ h.res = -1

\* The step is a read of the caller on the framed pipeline.
ReadStep == h.framed /\ h'.ops = h.ops + 1 /\ h'.op \in {"read", "read_byte"}

\* C34: when the block filter on the head reaches the end of the body and
\* the file filter's node follows, the reader sees one EOF between the last
\* byte of the body and the first byte behind it, also when a read of
\* several bytes reaches the end of the body inside its request: a read
\* delivers a byte from behind the body only directly after a read that
\* returned -1, the read after that -1 does not return -1 again, and after
\* the -1 the head is the file filter's node.
C34_AsStated ==
  [][ReadStep =>
        /\ h.rpos = FileBody /\ h'.rpos > FileBody => EofReturned
        /\ h.rpos = FileBody /\ EofReturned =>
             /\ h'.res # -1
             /\ Len(chain) = 1 /\ chain[1].filter = FileFilter]_vars

(***************************************************************************)
(* Flushing with failures: output pipelines over the file "b.out" whose   *)
(* write() may fail, or over memory, with identity filters and a filter   *)
(* that stops taking data pushed at any time.                             *)
(***************************************************************************)
MaxFlushOps == 5

FlushSizes == {700, 2500, 5000}

\* The room of the filter that stops taking data.
ShortRooms == {0, 1000, 6000}

InitFlush ==
  \E wfail \in BOOLEAN :
    /\ chain = <<>>
    /\ os = [OsInit(0, 65536, -1) EXCEPT !.wfail = wfail]
    /\ close_cache = <<>>
    /\ number = 0
    /\ log = <<>>
    /\ abort = ""
    /\ iobuf_buffer_size = iobuf_set_buffer_size(DEFAULT_IOBUF_BUFFER_SIZE, 1)
    /\ h = HInit(MaxFlushOps)

NextFlush ==
  \/ DoCreate("b.out")
  \/ DoTemp
  \/ DoPushIdentity
  \/ \E room \in ShortRooms : DoPushShort(room)
  \/ DoWriteByte
  \/ \E buflen \in FlushSizes : DoWrite(buflen)

SpecFlush == InitFlush /\ [][NextFlush]_vars

\* The last operation was a write that returned an error: it returned from
\* the flush of the head that failed.
WriteFailed == h.op \in {"write", "write_byte"} /\ h.res # 0

\* C35: every error the flush of an output node returns, be it the error of
\* the filter's Flush or the internal error for a filter that took fewer
\* bytes than offered, is recorded in the node's error, and the node's
\* buffer is empty after the flush.
C35_AsStated ==
  WriteFailed =>
    /\ chain[1].error = h.res
    /\ chain[1].d.len = 0

(***************************************************************************)
(* The life of a filter: pipelines over "a.in" and "b.out", whose write() *)
(* may fail, with identity filters, the block filter and a filter that    *)
(* stops taking data pushed and popped, read, written, closed and         *)
(* cancelled.  The log keeps the calls of all operations.  Filter         *)
(* contexts are numbered with the lowest free number, so a number is used *)
(* again once its filter is gone: the calls to one number are the lives   *)
(* of the filters that had it, one after the other.                       *)
(***************************************************************************)
MaxLifeOps == 5

LifeFileSizes == {0, 700}

LifeWriteSizes == {700, 5000}

\* The room of the caller's filter that stops taking data.
LifeRooms == {0, 6000}

\* The filter with context id was told to free itself and has not been
\* installed again.
Freed(id) ==
  CallsTo(id) # <<>> /\ CallsTo(id)[Len(CallsTo(id))].control = IOBUFCTRL_FREE

InitLife ==
  \E size \in LifeFileSizes, wfail \in BOOLEAN :
    /\ chain = <<>>
    /\ os = [OsInit(size, 65536, -1) EXCEPT !.wfail = wfail]
    /\ close_cache = <<>>
    /\ number = 0
    /\ log = <<>>
    /\ abort = ""
    /\ iobuf_buffer_size = iobuf_set_buffer_size(DEFAULT_IOBUF_BUFFER_SIZE, 1)
    /\ h = [HInit(MaxLifeOps) EXCEPT !.keep = TRUE]

NextLife ==
  \/ h.ops = 0 /\ DoOpen("a.in")
  \/ h.ops = 0 /\ DoCreate("b.out")
  \/ DoPushIdentity
  \/ HasOutput /\ DoPartialMode(1)
  \/ \E room \in LifeRooms : DoPushShort(room)
  \/ DoReadByte
  \/ DoRead(700)
  \/ DoPeek(32)
  \/ DoWriteByte
  \/ \E buflen \in LifeWriteSizes : DoWrite(buflen)
  \/ DoPop
  \/ DoClose
  \/ DoCancel

SpecLife == InitLife /\ [][NextLife]_vars

\* The context numbers the log has calls for.
LoggedIds == {log[k].fid : k \in 1 .. Len(log)}

\* In the calls s to one context number, Init is the first call of a life
\* and Free its last one.
OneLife(s) ==
  \A k \in 1 .. Len(s) :
    /\ s[k].control = IOBUFCTRL_INIT => k = 1 \/ s[k - 1].control = IOBUFCTRL_FREE
    /\ k > 1 /\ s[k - 1].control = IOBUFCTRL_FREE => s[k].control = IOBUFCTRL_INIT

\* The pipeline is gone: it was closed or cancelled.
LifeOver == h.op \in {"close", "cancel"} /\ abort = ""

\* C36: every filter of a pipeline, the file filter at the bottom and each
\* pushed filter, gets Init at most once and Free exactly once: no call
\* follows a filter's Free, also when Flush or Free failed in a pop, and
\* when the pipeline is closed or cancelled every filter has had its Free.
C36_AsStated ==
  \A id \in LoggedIds :
    /\ OneLife(CallsTo(id))
    /\ LifeOver => Freed(id)

(***************************************************************************)
(* Peeking at a source that fails: the pipelines of SpecPeek, whose file  *)
(* may fail to be read at an offset.                                      *)
(***************************************************************************)
\* The loop of iobuf_peek went round without changing anything.
PeekHangs == abort = Hang([abort |-> ""], "iobuf_peek").abort

\* C37: peek(n) returns whenever the head's filter delivers at least one
\* byte with every Underflow that succeeds; when the filter has delivered
\* fewer than n bytes and then reports an error, peek returns the bytes
\* buffered so far (they are the next bytes of the source).
C37_AsStated ==
  /\ ~PeekHangs
  /\ h.op = "peek" /\ h.res # -1 =>
       h.res = Len(h.peeked) /\ h.peeked = PatSeq(h.rpos, h.res)

(***************************************************************************)
(* Looking ahead and seeking: an input pipeline over the file "a.in" that *)
(* consists of the file filter only.  The caller looks at the first bytes *)
(* with the file filter's Peek, peeks, reads and seeks.                   *)
(***************************************************************************)
MaxLookOps == 5

LookFileSizes == {0, 20, 700, 5000}

LookReadSizes == {10, 700, 4096}

LookPeekSizes == {10, 32, 40}

LookPositions == {0, 5, 100}

InitLook ==
  \E size \in LookFileSizes, rchunk \in {1000, 65536} :
    InitWith(size, rchunk, -1, 1, MaxLookOps)

NextLook ==
  \/ DoOpen("a.in")
  \/ \E intval \in LookPeekSizes : DoIoctlPeek(intval)
  \/ DoPeek(32)
  \/ DoReadByte
  \/ \E buflen \in LookReadSizes : DoRead(buflen)
  \/ \E newpos \in LookPositions : DoSeekTo(newpos)

SpecLook == InitLook /\ [][NextLook]_vars

\* The size of the file "a.in".
LookSize == Len(os.inodes[1])

\* The last operation was a read, and what the reads since the open or the
\* last seek delivered is the file from that position on: the bytes are
\* the file's, and a read ended early or reported the end only at the end
\* of the file.
ReadsFollowFile ==
  /\ h.rok
  /\ h.op = "read_byte" /\ h.res = -1 => h.rpos >= LookSize
  /\ h.op = "read" /\ h.res < h.arg => h.rpos >= LookSize

DidLookRead == h.op \in {"read", "read_byte"} /\ abort = ""

\* C38: after a successful seek to p on an input pipeline of the file
\* filter alone, the reads deliver the file from offset p on, whatever was
\* read or peeked before, also when the file filter has latched a delayed
\* EOF or holds look-ahead bytes that were not consumed.
C38_AsStated == abort = "" /\ (h.sought /\ DidLookRead => ReadsFollowFile)

\* The file was opened and at most looked at with the file filter's Peek:
\* nothing was read into the node, and no seek was made.
FreshlyOpened ==
  /\ chain # <<>> /\ ~h.sought
  /\ chain[1].filter = FileFilter
  /\ chain[1].d.len = 0 /\ chain[1].nbytes = 0 /\ chain[1].ntotal = 0

\* C39: the file filter's Peek on a freshly opened file returns up to 32
\* leading bytes of the file and consumes none: the reads deliver the whole
\* file from its first byte; Peek issued several times before the first
\* read returns the same bytes every time and changes nothing of what the
\* reads deliver.
C39_AsStated ==
  /\ abort = ""
  /\ h.op = "ioctl_peek" /\ FreshlyOpened =>
       /\ h.res = Len(h.peeked)
       /\ h.peeked = PatSeq(0, Min(Min(h.arg, PEEKED_SIZE), LookSize))
  /\ ~h.sought /\ DidLookRead => ReadsFollowFile

(***************************************************************************)
(* A cancelled output file and the close cache: "b.out" is created,       *)
(* written, closed or cancelled, and opened for reading.                  *)
(***************************************************************************)
MaxRemovedOps == 5

RemovedSizes == {100, 5000}

InitRemoved ==
  \E kilobyte \in Kilobytes :
    InitWith(700, DEFAULT_IOBUF_BUFFER_SIZE, -1, kilobyte, MaxRemovedOps)

NextRemoved ==
  \/ DoCreate("b.out")
  \/ DoOpen("b.out")
  \/ DoPushIdentity
  \/ DoWriteByte
  \/ \E buflen \in RemovedSizes : DoWrite(buflen)
  \/ DoReadByte
  \/ DoClose
  \/ DoCancel

SpecRemoved == InitRemoved /\ [][NextRemoved]_vars

\* The last operation cancelled an output pipeline over a path, whose file
\* it removed.
CancelledOutput ==
  h.op = "cancel" /\ h.pre # <<>> /\ OutputOverPath(h.pre) /\ os.dir["b.out"] = 0

\* The last operation opened "b.out" for reading and returned a pipeline.
OpenedRemoved == h.op = "open" /\ h.res = 0 /\ chain # <<>>

\* C40: after cancel has removed the file of a pipeline made by create,
\* the close cache has no live slot for the path, and a later open of the
\* path for reading returns no pipeline over the handle of the removed
\* file: the handle of a pipeline it returns is on the file the path names.
C40_AsStated ==
  /\ CancelledOutput =>
       \A k \in 1 .. Len(close_cache) :
         close_cache[k].fname = "b.out" => close_cache[k].fp = GNUPG_INVALID_FD
  /\ OpenedRemoved =>
       /\ os.dir["b.out"] # 0
       /\ os.fds[chain[1].filter_ov.fp].ino = os.dir["b.out"]

(***************************************************************************)
(* Pushing and popping: input and output pipelines over files and memory   *)
(* buffers, with identity filters pushed and popped between reads and      *)
(* writes.                                                                 *)
(***************************************************************************)
MaxPushOps == 5

PushFileSizes == {0, 700, 5000}

PushSizes == {700, 2500}

InitPush ==
  \E size \in PushFileSizes, kilobyte \in Kilobytes :
    InitWith(size, 65536, -1, kilobyte, MaxPushOps)

NextPush ==
  \/ DoOpen("a.in")
  \/ DoCreate("b.out")
  \/ DoTemp
  \/ DoTempWithContent(700)
  \/ DoPushIdentity
  \/ DoPop
  \/ DoReadByte
  \/ \E buflen \in PushSizes : DoRead(buflen)
  \/ DoWriteByte
  \/ \E buflen \in PushSizes : DoWrite(buflen)

SpecPush == InitPush /\ [][NextPush]_vars

\* The last operation was a successful push of an identity filter.
Pushed == h.op = "push" /\ h.res = 0 /\ abort = ""

\* After a successful push the head is the node it was and carries the new
\* filter and context, and the node after it is a new node holding the old
\* head's filter, context and counters; the chain is one node longer.
PushShape ==
  Pushed =>
    /\ Len(chain) = Len(h.pre) + 1
    /\ chain[1].addr = h.pre[1].addr
    /\ chain[1].filter = IdentityFilter
    /\ chain[1].filter_ov.id = h.arg
    /\ chain[2].addr \notin Addrs(h.pre)
    /\ chain[2].filter = h.pre[1].filter
    /\ chain[2].filter_ov.id = h.pre[1].filter_ov.id
    /\ chain[2].nbytes = h.pre[1].nbytes
    /\ chain[2].ntotal = h.pre[1].ntotal
    /\ chain[2].nlimit = h.pre[1].nlimit

\* C1 as stated: the head the caller holds is the head after every push, pop
\* and EOF splice, and after a successful push the shadow node holds the
\* previous head's callback, context, counters and buffer contents.
C1_AsStated ==
  /\ (chain # <<>> /\ h.head # 0 => chain[1].addr = h.head)
  /\ PushShape
  /\ (Pushed => chain[2].d = h.pre[1].d)

\* C1 amended: as C1, except that the shadow node holds the previous head's
\* buffer contents only when the head was not an output stream; the push on
\* an output stream head first flushes the head's buffer into its filter,
\* and the shadow node's buffer is empty.
C1_HeadIdentity ==
  /\ (chain # <<>> /\ h.head # 0 => chain[1].addr = h.head)
  /\ PushShape
  /\ (Pushed => IF h.pre[1].use = IOBUF_OUTPUT
                  THEN chain[2].d.len = 0 /\ chain[2].d.buf = <<>>
                ELSE chain[2].d = h.pre[1].d)

\* A push on a head with unread buffered bytes and a filter already on it.
C1_Witness ==
  /\ Pushed
  /\ Len(chain) >= 3
  /\ h.pre[1].d.len > h.pre[1].d.start
  /\ chain[2].d.len > chain[2].d.start

====
